---- MODULE Spec2Model ----
(***************************************************************************)
(* json-obj-manager: the DataStorage facade over an InMemoryAdapter whose  *)
(* calls may fail, BatchProcessor.executeBatch and TransactionProcessor    *)
(* (src/utils/batch.ts, kept as src/unnamed/part_006).                     *)
(*                                                                         *)
(* One step of the model is one awaited DataStorage call (the suspension   *)
(* points of the code) together with the synchronous code that follows it  *)
(* up to the next awaited call.                                            *)
(***************************************************************************)
EXTENDS Integers, Sequences, FiniteSets, TLC

\* ---------------------------------------------------------------- bounds
\* the longest list passed to executeBatch
MaxOps == 3
\* the most operations appended to a transaction
MaxTxOps == 2
\* the most TransactionProcessor methods called in a run
MaxCalls == 4
\* the most adapter calls that reject in a run
MaxFails == 2
\* the most DataStorage methods called directly in a run
MaxStorageCalls == 3
\* the longest list that is executed again
MaxReplayOps == 2
\* the most times a batch is executed again
MaxReplays == 1
\* the longest list passed to batchLoad
MaxLoadKeys == 3
\* the most saves another user of the DataStorage makes
MaxOtherSaves == 1
\* the most calls made on a BatchBuilder and on the lists it returned
MaxBuilderCalls == 4
\* the most messages added to a chat memory
MaxMessages == 2
\* the most chunks chunkOperations is followed through: more than any list of
\* MaxReplayOps operations has, so only a loop that does not end gets there,
\* and there its condition is still true
MaxChunkSteps == 4

\* ------------------------------------------------------- program constants
DefaultMaxBatchSize == 100

\* ---------------------------------------------------------- value domain
Keys == {"k1", "k2"}
\* "" is a falsy JavaScript value, "a" and "b" are truthy ones
Values == {"", "a", "b"}
\* what the adapter may hold before the first call
InitialValues == {"", "a"}
Null == "<null>"
Absent == "<absent>"
Undefined == "<undefined>"
\* the number 0 and the boolean false: falsy values of AllowedData
Zero == "<0>"
False == "<false>"
\* an object that refers to itself, and a function (an `object` of AllowedData)
Circular == "<circular>"
Function == "<function>"
\* what DataStorage.save is called with directly
SaveValues == {"", Zero, False, "a", Null, Undefined, Circular, Function}

EmitModes == {"all", "info"}

ErrInvalidData == "Invalid data format"
ErrAdapterSave == "adapter.save failed"
ErrAdapterLoad == "adapter.load failed"
ErrAdapterDelete == "adapter.delete failed"
ErrAdapterGetAll == "adapter.getAll failed"
ErrAdapterClear == "adapter.clear failed"
ErrCommitted == "Transaction has already been committed"
ErrRolledBack == "Transaction has been rolled back"
ErrRollbackFailed == "Rollback failed"
NoError == "<none>"
\* a thrown error: its message and the message of the error it wraps
Err(msg, cause) == <<msg, cause>>
NoErr == Err(NoError, NoError)
NoKey == "<no key>"
NoData == "<no data>"
NoValue == "<no value>"
\* no backup entry
NoEntry == [key |-> NoKey, value |-> NoValue]

Min(a, b) == IF a < b THEN a ELSE b
Last(S) == CHOOSE i \in S : \A j \in S : j <= i

VARIABLES
  store,          \* InMemoryAdapter.storage: key -> value or Absent
  emitMode,       \* DataStorage._emitMode
  failsLeft,      \* how many more adapter calls may reject
  bpc,            \* executeBatch: "idle", "run" or "done"
  caller,         \* who called executeBatch: "none", "user" or "commit"
  input,          \* executeBatch's operations argument
  maxBatchSize,   \* BatchProcessor.maxBatchSize
  ci,             \* executeBatch's loop index i, from 1
  oi,             \* position in the chunk's execution order, from 1
  chunkResult,    \* executeChunk's result so far
  result,         \* executeBatch's result so far
  calls,          \* executeChunk's DataStorage calls so far: the operation's id, whether it resolved
  operations,     \* TransactionProcessor.operations
  backupData,     \* TransactionProcessor.backupData, in insertion order
  isCommitted,    \* TransactionProcessor.isCommitted
  isRolledBack,   \* TransactionProcessor.isRolledBack
  tpc,            \* the transaction call in flight: "idle", "backup", "batch", "rollback"
  bi,             \* createBackup's position in operations
  ri,             \* rollback's position in backupData
  rbCall,         \* which rollback call runs: "none", "commit" (line 258), "catch" (line 263), "manual"
  caught,         \* the error commit's catch clause holds
  ncalls,         \* how many TransactionProcessor methods were called so far
  callLimit,      \* how many of them are called in this run at most
  chunking,       \* chunkOperations' loop, followed step by step: i and chunks
  pacing,         \* BatchProcessor.delayBetweenBatches and the delays awaited so far
  chat,           \* a PersistentChatMemory and the adapter entry 'chat-memory'
  thrown,         \* what that call threw, or NoErr
  settled,        \* how the last call settled if it was a commit() on an open transaction:
                  \* "returned" or "threw", and "no" otherwise
  pre,            \* the store when the last commit() was called
  restores,       \* restore writes issued since the last commit() was called
  rbTried,        \* keys whose restore the running rollback call has attempted
  rbFailed,       \* per rollback call that threw: the keys it tried, the keys backed up
  dop,            \* the DataStorage method in flight: "none", "save", "load", "delete", "clear"
  dpc,            \* where it is suspended: "idle", "read", "write" or "snapshot"
  dkey,           \* its key argument
  dval,           \* its data argument
  dmode,          \* _emitMode when it was called
  dswitched,      \* whether setEmitMode changed the mode while it was in flight
  dbefore,        \* delete's dataBeforeDelete, clear's dataBeforeClear
  dwrote,         \* whether its adapter write has resolved
  dret,           \* how the last call settled: resolved or rejected, the value, the error
  events,         \* what the call in flight (or the last call) passed to emitter.emit
  scalls,         \* how many DataStorage methods were called so far
  fresh,          \* per key: the value of the last resolved save(k, v), as long as
                  \* no save, delete or clear of k was called after it
  replays,        \* how many times the batch was executed again
  afterPrev,      \* the store when the previous execution of the batch returned
  prevOk,         \* whether every operation of that execution succeeded
  lpc,            \* batchLoad: "idle", "run" or "done"
  lkeys,          \* batchLoad's keys argument
  lci,            \* batchLoad's loop index i, from 1
  lpending,       \* positions of the chunk whose storage.load has not settled
  lvals,          \* chunkResults: per settled position of the chunk, the value
  loaded,         \* batchLoad's result: per key its value, or Absent if not in it
  lfailed,        \* the keys of which a storage.load rejected
  rbEntry,        \* the backup entry whose restore rollback is awaiting
  mpc,            \* a rollback() called during a commit(): "idle", "run" or "done"
  mri,            \* its position in backupData
  mEntry,         \* the backup entry whose restore it is awaiting
  wsaves,         \* how many saves another user of the DataStorage has made
  wkey,           \* the key of the last one
  wval,           \* its value
  wbackup,        \* what the backup held for that key if the save fell between the
                  \* backup's read of the key and rollback's restore of it
  builder,        \* a BatchBuilder and its user: the arrays allocated so far (heap),
                  \* which of them is BatchBuilder.operations, what was appended
                  \* since the last clear(), per list that build() returned the
                  \* array and what the user made of it, and the calls so far
  facade          \* a DataStorage constructed over some adapter: whether the adapter
                  \* has a getAll method, its data field, whether DataStorage.getAll
                  \* was called on it and how that call settled

vars == <<store, emitMode, failsLeft, bpc, caller, input, maxBatchSize, ci, oi,
          chunkResult, result, calls, operations, backupData, isCommitted,
          isRolledBack, tpc, bi, ri, rbCall, caught, ncalls, thrown, settled,
          pre, restores, rbTried, rbFailed, dop, dpc, dkey, dval, dmode, dswitched,
          dbefore, dwrote, dret, events, scalls, fresh, replays, afterPrev, prevOk,
          lpc, lkeys, lci, lpending, lvals, loaded, lfailed, rbEntry, mpc, mri, mEntry,
          wsaves, wkey, wval, wbackup, builder, facade, callLimit,
          chunking, pacing, chat>>

storageVars == <<store, failsLeft>>
batchVars == <<bpc, caller, input, maxBatchSize, ci, oi, chunkResult, result, calls>>
txFlow == <<backupData, isCommitted, isRolledBack, tpc, ri, rbEntry, rbCall, caught,
            thrown, settled, rbTried, rbFailed>>
txVars == <<operations, bi, ncalls, pre, restores, txFlow>>
\* a DataStorage method called directly, and what is known of it
callVars == <<dop, dpc, dkey, dval, dmode, dswitched, dbefore, dwrote, dret, events, scalls, fresh>>
\* a batch executed again
replayVars == <<replays, afterPrev, prevOk>>
\* a batchLoad
loadVars == <<lpc, lkeys, lci, lpending, lvals, loaded, lfailed>>
\* a rollback() called while a commit() is suspended
raceVars == <<mpc, mri, mEntry>>
\* another user of the same DataStorage
writerVars == <<wsaves, wkey, wval, wbackup>>
\* BatchBuilder; a DataStorage over another adapter; the run's call limit
extVars == <<builder, facade, callLimit, chunking, pacing, chat>>
\* what executeBatch and the transaction's methods never touch
restVars == <<emitMode, extVars, callVars, replayVars, loadVars, raceVars, writerVars>>
\* what a DataStorage method called directly never touches
procVars == <<batchVars, txVars, replayVars, loadVars, raceVars, writerVars, extVars>>

\* ------------------------------------------------------- InMemoryAdapter
Falsy(v) == v \in {"", Zero, False}

AdapterSave(st, key, data) == [st EXCEPT ![key] = data]

\* this.storage.get(key) || null
AdapterLoad(st, key) == IF st[key] = Absent \/ Falsy(st[key]) THEN Null ELSE st[key]

AdapterDelete(st, key) == [st EXCEPT ![key] = Absent]

\* ----------------------------------------------------------- DataStorage
\* JSON.stringify(data): "<throws>" for a circular structure, undefined for a
\* function (without throwing), and the JSON text otherwise
Throws == "<throws>"
JSONStringify(data) ==
  IF data = Circular THEN Throws
  ELSE IF data = Function \/ data = Undefined THEN Undefined
  ELSE IF data = Null THEN "null"
  ELSE IF data = Zero THEN "0"
  ELSE IF data = False THEN "false"
  ELSE "\"" \o data \o "\""

\* validateData: false for null and undefined and when JSON.stringify throws
validateData(data) ==
  IF data = Null \/ data = Undefined THEN FALSE
  ELSE JSONStringify(data) # Throws

\* An outcome of one DataStorage call: the store it leaves, whether the
\* promise resolved, the error it rejected with, the adapter failures it used.
Outcome(st, ok, err, cost) == [st |-> st, ok |-> ok, err |-> err, cost |-> cost]

\* StorageSave of a save that swallows the rejection of adapter.save
StorageSaveSwallowsFailure(st, mode, key, data) ==
  IF ~validateData(data)
  THEN {Outcome(st, FALSE, ErrInvalidData, 0)}
  ELSE {Outcome(st, TRUE, NoError, 1),
        Outcome(AdapterSave(st, key, data), TRUE, NoError, 0)}

\* StorageSave of a save that reads the snapshot for the 'change' event before
\* it writes: a snapshot read that rejects leaves the store as it was
StorageSaveReadsSnapshotFirst(st, mode, key, data) ==
  IF ~validateData(data)
  THEN {Outcome(st, FALSE, ErrInvalidData, 0)}
  ELSE {Outcome(st, FALSE, ErrAdapterSave, 1),
        Outcome(AdapterSave(st, key, data), TRUE, NoError, 0)}
       \cup (IF mode = "all"
             THEN {Outcome(st, FALSE, ErrAdapterGetAll, 1)}
             ELSE {})

\* DataStorage.save as one call: every way it can settle
StorageSave(st, mode, key, data) ==
  IF ~validateData(data)
  THEN {Outcome(st, FALSE, ErrInvalidData, 0)}
  ELSE {Outcome(st, FALSE, ErrAdapterSave, 1),
        Outcome(AdapterSave(st, key, data), TRUE, NoError, 0)}
       \cup (IF mode = "all"
             THEN {Outcome(AdapterSave(st, key, data), FALSE, ErrAdapterGetAll, 1)}
             ELSE {})

StorageDelete(st, mode, key) ==
  (IF mode = "info" THEN {Outcome(st, FALSE, ErrAdapterLoad, 1)} ELSE {})
  \cup {Outcome(st, FALSE, ErrAdapterDelete, 1),
        Outcome(AdapterDelete(st, key), TRUE, NoError, 0)}
  \cup (IF mode = "all"
        THEN {Outcome(AdapterDelete(st, key), FALSE, ErrAdapterGetAll, 1)}
        ELSE {})

\* load's outcomes carry the value read in val
StorageLoad(st, key) ==
  {[val |-> AdapterLoad(st, key), ok |-> TRUE, err |-> NoError, cost |-> 0],
   [val |-> Null, ok |-> FALSE, err |-> ErrAdapterLoad, cost |-> 1]}

\* -------------------------------------------------------- BatchOperation
SaveOp(key, value) == [type |-> "save", key |-> key, value |-> value]
DeleteOp(key) == [type |-> "delete", key |-> key, value |-> Undefined]

\* The operations a caller may pass: saves of two distinct values to k1, a
\* save to k2, a save of null (which DataStorage.save rejects), and deletes.
Ops == {SaveOp("k1", "a"), SaveOp("k1", "b"), SaveOp("k2", "a"), SaveOp("k2", Null),
        DeleteOp("k1"), DeleteOp("k2")}

OpLists == UNION {[1..n -> Ops] : n \in 0..MaxOps}

\* An operation object: the operation with its position in the input as identity
WithIds(ops) == [i \in 1..Len(ops) |->
                   [id |-> i, type |-> ops[i].type, key |-> ops[i].key,
                    value |-> ops[i].value]]

EmptyResult == [success |-> TRUE, operations |-> <<>>, errors |-> <<>>]

\* --------------------------------------------------------- BatchProcessor
BatchProcessorMaxBatchSize(option) ==
  IF option = 0 THEN DefaultMaxBatchSize ELSE option

\* Array.prototype.slice(from, to), from and to counted from 0
slice(s, from, to) == SubSeq(s, from + 1, Min(to, Len(s)))

RECURSIVE chunkFrom(_, _, _)
chunkFrom(ops, size, i) ==
  IF i < Len(ops)
  THEN <<slice(ops, i, i + size)>> \o chunkFrom(ops, size, i + size)
  ELSE <<>>

chunkOperations(ops, size) == chunkFrom(ops, size, 0)

saveOps(chunk) == SelectSeq(chunk, LAMBDA op : op.type = "save")
deleteOps(chunk) == SelectSeq(chunk, LAMBDA op : op.type = "delete")

\* executeChunkOrder of an executeChunk that runs the chunk as it is given
executeChunkOrderAsGiven(chunk) == chunk

\* executeChunkOrder of an executeChunk that runs its saves last to first
executeChunkOrderSavesReversed(chunk) ==
  LET saves == saveOps(chunk)
  IN [i \in 1..Len(saves) |-> saves[Len(saves) + 1 - i]] \o deleteOps(chunk)

\* executeChunkOrder of an executeChunk that runs its deletes first
executeChunkOrderDeletesFirst(chunk) == deleteOps(chunk) \o saveOps(chunk)

\* the order in which executeChunk runs, and reports, a chunk's operations
executeChunkOrder(chunk) == saveOps(chunk) \o deleteOps(chunk)

OpError(op, err) ==
  <<(IF op.type = "save" THEN "Save operation failed for key"
                         ELSE "Delete operation failed for key"), op.key, err>>

\* executeChunkRecord with line 107 (and 127) left out: a failure is recorded
\* but the chunk still counts as successful
executeChunkRecordKeepsSuccess(res, op, o) ==
  [success |-> res.success,
   operations |-> Append(res.operations,
                         [operation |-> op, success |-> o.ok, error |-> o.err]),
   errors |-> IF o.ok THEN res.errors ELSE Append(res.errors, OpError(op, o.err))]

\* executeChunk's result after one more operation has settled with outcome o
executeChunkRecord(res, op, o) ==
  IF o.ok
  THEN [res EXCEPT !.operations = Append(@, [operation |-> op, success |-> TRUE,
                                             error |-> NoError])]
  ELSE [success |-> FALSE,
        operations |-> Append(res.operations,
                              [operation |-> op, success |-> FALSE, error |-> o.err]),
        errors |-> Append(res.errors, OpError(op, o.err))]

\* executeBatchMerge assigning the chunk's operations instead of pushing them
executeBatchMergeOverwrites(res, chunkRes) ==
  [success |-> res.success /\ chunkRes.success,
   operations |-> chunkRes.operations,
   errors |-> res.errors \o chunkRes.errors]

\* executeBatch, lines 58-63: a finished chunk's result joins the batch's
executeBatchMerge(res, chunkRes) ==
  [success |-> res.success /\ chunkRes.success,
   operations |-> res.operations \o chunkRes.operations,
   errors |-> res.errors \o chunkRes.errors]

\* OpOutcomes of an executeChunk that stops calling DataStorage after the
\* chunk's first failure and reports the remaining operations as failed
OpOutcomesAfterFailureSkipped(st, mode, res, op) ==
  IF ~res.success THEN {Outcome(st, FALSE, "skipped", 0)}
  ELSE IF op.type = "save" THEN StorageSave(st, mode, op.key, op.value)
                           ELSE StorageDelete(st, mode, op.key)

\* executeChunk, lines 94 and 114: the DataStorage call made for op, whatever
\* the chunk's result res so far
OpOutcomes(st, mode, res, op) ==
  IF op.type = "save" THEN StorageSave(st, mode, op.key, op.value)
                      ELSE StorageDelete(st, mode, op.key)

Chunks == chunkOperations(input, maxBatchSize)

\* executeBatch(ops) called on a BatchProcessor constructed with maxBatchSize m
executeBatchBegin(ops, m, who) ==
  /\ input' = WithIds(ops)
  /\ maxBatchSize' = BatchProcessorMaxBatchSize(m)
  /\ caller' = who
  /\ ci' = 1
  /\ oi' = 1
  /\ chunkResult' = EmptyResult
  /\ result' = EmptyResult
  /\ calls' = <<>>
  /\ bpc' = IF Len(ops) = 0 THEN "done" ELSE "run"

\* ---------------------------------------------------- TransactionProcessor
BackupKeys(backup) == {backup[i].key : i \in 1..Len(backup)}

\* checkTransactionState without its second check (lines 316-318)
checkTransactionStateCommittedOnly ==
  IF isCommitted THEN Err(ErrCommitted, NoError) ELSE NoErr

\* checkTransactionState: the error it throws, or NoErr
checkTransactionState ==
  IF isCommitted THEN Err(ErrCommitted, NoError)
  ELSE IF isRolledBack THEN Err(ErrRolledBack, NoError)
  ELSE NoErr

\* createBackup's loop: the first operation from position `from` on whose
\* key the backup does not hold yet (0 when there is none)
createBackupNext(from, backup) ==
  LET todo == {i \in from..Len(operations) : operations[i].key \notin BackupKeys(backup)}
  IN IF todo = {} THEN 0 ELSE CHOOSE i \in todo : \A j \in todo : i <= j

\* createBackup, lines 297 and 300: what is recorded for a load's outcome
\* getPendingOperations, lines 322-324: a copy of the pending operations
getPendingOperations == operations

createBackupEntryRecordsUndefined(key, o) ==
  [key |-> key, value |-> IF o.ok THEN o.val ELSE Undefined]

createBackupEntry(key, o) == [key |-> key, value |-> IF o.ok THEN o.val ELSE Null]

\* what the transaction itself may have left under a key: a value it saves
\* there, nothing if it deletes the key, and what the backup holds for it
OwnValues(key) ==
  {operations[i].value : i \in {j \in 1..Len(operations) :
                                  operations[j].type = "save" /\ operations[j].key = key}}
  \cup {Absent}
  \cup {backupData[i].value : i \in {j \in 1..Len(backupData) : backupData[j].key = key}}

\* rollbackOutcomes of a rollback that leaves a key alone when it holds a value
\* the transaction did not put there
rollbackOutcomesKeepsForeign(st, mode, entry) ==
  IF st[entry.key] \notin OwnValues(entry.key) THEN {Outcome(st, TRUE, NoError, 0)}
  ELSE IF entry.value = Null THEN StorageDelete(st, mode, entry.key)
  ELSE StorageSave(st, mode, entry.key, entry.value)

\* rollback, lines 277-281: the restore call for one backup entry
rollbackOutcomes(st, mode, entry) ==
  IF entry.value = Null THEN StorageDelete(st, mode, entry.key)
                        ELSE StorageSave(st, mode, entry.key, entry.value)

\* rollback, lines 284-285, and the return to its caller: commit (line 258)
\* returns the batch result, commit's catch clause (line 263) rethrows
rollbackDone(who) ==
  /\ isRolledBack' = TRUE
  /\ backupData' = <<>>
  /\ tpc' = "idle"
  /\ rbCall' = "none"
  /\ settled' = IF who = "commit" THEN "returned"
                ELSE IF who = "catch" THEN "threw" ELSE settled
  /\ thrown' = IF who = "catch" THEN caught ELSE thrown
  /\ rbEntry' = NoEntry
  /\ UNCHANGED <<isCommitted, ri, caught, rbTried, rbFailed>>

\* rollback, lines 270-272: the transaction is committed or rolled back already
\* (a rollback() called during the commit has finished); rollback returns at
\* once and commit returns the batch's result
rollbackSkipped ==
  /\ tpc' = "idle"
  /\ rbCall' = "none"
  /\ rbEntry' = NoEntry
  /\ settled' = "returned"
  /\ UNCHANGED <<backupData, isCommitted, isRolledBack, ri, caught, thrown, rbTried,
                 rbFailed>>

\* rollback, lines 270-276, called by commit at line 258
rollbackBegin(who) ==
  IF isRolledBack \/ isCommitted
  THEN rollbackSkipped
  ELSE IF backupData = <<>>
  THEN rollbackDone(who)
  ELSE /\ tpc' = "rollback"
       /\ ri' = 1
       /\ rbEntry' = backupData[1]
       /\ rbCall' = who
       /\ rbTried' = {}
       /\ UNCHANGED <<backupData, isCommitted, isRolledBack, caught, thrown, settled,
                      rbFailed>>

\* rollback, line 287, and what its caller does with the error
rollbackThrow(who, tried, err) ==
  LET e == Err(ErrRollbackFailed, err)
  IN /\ rbFailed' = rbFailed \cup {[tried |-> tried, keys |-> BackupKeys(backupData)]}
     /\ IF who = "commit"
        THEN \* caught at line 262; line 263 calls rollback again
             /\ caught' = e
             /\ IF isRolledBack \/ isCommitted
                THEN \* it returns at line 271 and line 264 rethrows
                     /\ thrown' = e
                     /\ tpc' = "idle"
                     /\ rbCall' = "none"
                     /\ rbEntry' = NoEntry
                     /\ rbTried' = tried
                     /\ settled' = "threw"
                     /\ UNCHANGED <<backupData, isCommitted, isRolledBack, ri>>
                ELSE /\ tpc' = "rollback"
                     /\ ri' = 1
                     /\ rbEntry' = backupData[1]
                     /\ rbCall' = "catch"
                     /\ rbTried' = {}
                     /\ UNCHANGED <<backupData, isCommitted, isRolledBack, thrown, settled>>
        ELSE \* the call (commit from its catch clause, or rollback) rejects
             /\ thrown' = e
             /\ tpc' = "idle"
             /\ rbCall' = "none"
             /\ rbEntry' = NoEntry
             /\ rbTried' = tried
             /\ settled' = IF who = "catch" THEN "threw" ELSE settled
             /\ UNCHANGED <<backupData, isCommitted, isRolledBack, ri, caught>>

\* commitAfterBatch with the test of line 253 inverted
commitAfterBatchInverted(res) ==
  IF ~res.success
  THEN /\ isCommitted' = TRUE
       /\ backupData' = <<>>
       /\ tpc' = "idle"
       /\ settled' = "returned"
       /\ UNCHANGED <<isRolledBack, ri, rbEntry, rbCall, caught, thrown, rbTried, rbFailed>>
  ELSE rollbackBegin("commit")

\* commit, lines 253-261: executeBatch has returned res
commitAfterBatch(res) ==
  IF res.success
  THEN /\ isCommitted' = TRUE
       /\ backupData' = <<>>
       /\ tpc' = "idle"
       /\ settled' = "returned"
       /\ UNCHANGED <<isRolledBack, ri, rbEntry, rbCall, caught, thrown, rbTried, rbFailed>>
  ELSE rollbackBegin("commit")

\* a user calls executeBatch on a fresh BatchProcessor
ExecuteBatch ==
  /\ bpc = "idle"
  /\ \E ops \in OpLists, m \in 1..MaxOps : executeBatchBegin(ops, m, "user")
  /\ UNCHANGED <<storageVars, restVars, txVars>>

\* one awaited storage.save / storage.delete of executeChunk, and what follows
\* it up to the next awaited call: the rest of the chunk, the next chunk, or
\* executeBatch's return (into commit, when commit called it)
ExecuteChunkStep ==
  /\ bpc = "run"
  /\ LET order == executeChunkOrder(Chunks[ci])
         op == order[oi]
     IN \E o \in OpOutcomes(store, emitMode, chunkResult, op) :
          /\ o.cost <= failsLeft
          /\ failsLeft' = failsLeft - o.cost
          /\ store' = o.st
          /\ calls' = Append(calls, [id |-> op.id, ok |-> o.ok])
          /\ LET cr == executeChunkRecord(chunkResult, op, o)
                 res == executeBatchMerge(result, cr)
             IN IF oi < Len(order)
                THEN /\ oi' = oi + 1
                     /\ chunkResult' = cr
                     /\ UNCHANGED <<ci, result, bpc, txFlow>>
                ELSE /\ result' = res
                     /\ chunkResult' = EmptyResult
                     /\ oi' = 1
                     /\ ci' = ci + 1
                     /\ IF ci < Len(Chunks)
                        THEN bpc' = "run" /\ UNCHANGED txFlow
                        ELSE /\ bpc' = "done"
                             /\ IF caller = "commit" THEN commitAfterBatch(res)
                                                     ELSE UNCHANGED txFlow
  /\ UNCHANGED <<restVars, caller, input, maxBatchSize, operations, bi, ncalls, pre,
                 restores>>

\* a method of the transaction is called: no call on it is in flight
TxCall ==
  /\ tpc = "idle"
  /\ ncalls < callLimit
  /\ ncalls' = ncalls + 1

\* TransactionProcessor.save(key, value)
TxSave(key, value) ==
  /\ TxCall
  /\ thrown' = checkTransactionState
  /\ settled' = "no"
  /\ IF checkTransactionState = NoErr
     THEN /\ Len(operations) < MaxTxOps
          /\ operations' = Append(operations, SaveOp(key, value))
     ELSE UNCHANGED operations
  /\ UNCHANGED <<storageVars, restVars, batchVars, bi, pre, restores, backupData,
                 isCommitted, isRolledBack, tpc, ri, rbEntry, rbCall, caught, rbTried, rbFailed>>

\* TransactionProcessor.delete(key)
TxDelete(key) ==
  /\ TxCall
  /\ thrown' = checkTransactionState
  /\ settled' = "no"
  /\ IF checkTransactionState = NoErr
     THEN /\ Len(operations) < MaxTxOps
          /\ operations' = Append(operations, DeleteOp(key))
     ELSE UNCHANGED operations
  /\ UNCHANGED <<storageVars, restVars, batchVars, bi, pre, restores, backupData,
                 isCommitted, isRolledBack, tpc, ri, rbEntry, rbCall, caught, rbTried, rbFailed>>

\* TransactionProcessor.clear()
TxClear ==
  /\ TxCall
  /\ thrown' = checkTransactionState
  /\ settled' = "no"
  /\ IF checkTransactionState = NoErr
     THEN operations' = <<>> /\ backupData' = <<>>
     ELSE UNCHANGED <<operations, backupData>>
  /\ UNCHANGED <<storageVars, restVars, batchVars, bi, pre, restores, isCommitted,
                 isRolledBack, tpc, ri, rbEntry, rbCall, caught, rbTried, rbFailed>>

\* TransactionProcessor.commit(), up to its first awaited call
Commit ==
  /\ TxCall
  /\ IF checkTransactionState # NoErr
     THEN /\ thrown' = checkTransactionState
          /\ settled' = "no"
          /\ UNCHANGED <<storageVars, restVars, batchVars, operations, bi, pre, restores,
                         backupData, isCommitted, isRolledBack, tpc, ri, rbEntry, rbCall, caught,
                         rbTried, rbFailed>>
     ELSE /\ pre' = store
          /\ restores' = 0
          /\ rbTried' = {}
          /\ rbFailed' = {}
          /\ thrown' = NoErr
          /\ UNCHANGED <<storageVars, restVars, operations, isRolledBack, ri, rbEntry, rbCall,
                         caught>>
          /\ LET first == createBackupNext(1, backupData)
             IN IF first # 0
                THEN \* createBackup awaits its first storage.load
                     /\ tpc' = "backup"
                     /\ bi' = first
                     /\ settled' = "no"
                     /\ UNCHANGED <<batchVars, backupData, isCommitted>>
                ELSE \* nothing to back up: executeBatch is called at once
                     /\ executeBatchBegin(operations, 0, "commit")
                     /\ bi' = 1
                     /\ IF operations = <<>>
                        THEN \* it returns an empty, successful result
                             /\ isCommitted' = TRUE
                             /\ backupData' = <<>>
                             /\ tpc' = "idle"
                             /\ settled' = "returned"
                        ELSE /\ tpc' = "batch"
                             /\ settled' = "no"
                             /\ UNCHANGED <<backupData, isCommitted>>

\* one awaited storage.load of createBackup, and what follows it up to the
\* next awaited call: the next load, or executeBatch's first operation
CreateBackupStep ==
  /\ tpc = "backup"
  /\ LET key == operations[bi].key
     IN \E o \in StorageLoad(store, key) :
          /\ o.cost <= failsLeft
          /\ failsLeft' = failsLeft - o.cost
          /\ LET backup == Append(backupData, createBackupEntry(key, o))
                 next == createBackupNext(bi + 1, backup)
             IN /\ backupData' = backup
                /\ IF next # 0
                   THEN bi' = next /\ UNCHANGED <<tpc, batchVars>>
                   ELSE /\ bi' = 1
                        /\ tpc' = "batch"
                        /\ executeBatchBegin(operations, 0, "commit")
  /\ UNCHANGED <<store, restVars, operations, ncalls, pre, restores, isCommitted,
                 isRolledBack, ri, rbEntry, rbCall, caught, thrown, settled, rbTried, rbFailed>>

\* Rollback of a rollback() that checks the transaction state as the other
\* methods do, and throws on a Committed or RolledBack transaction
RollbackChecksState ==
  /\ TxCall
  /\ thrown' = checkTransactionState
  /\ settled' = "no"
  /\ IF isRolledBack \/ isCommitted
     THEN UNCHANGED <<backupData, isCommitted, isRolledBack, tpc, ri, rbEntry, rbCall, caught,
                      rbTried, rbFailed>>
     ELSE /\ rbTried' = {}
          /\ rbFailed' = {}
          /\ IF backupData = <<>>
             THEN /\ isRolledBack' = TRUE
                  /\ UNCHANGED <<backupData, isCommitted, tpc, ri, rbEntry, rbCall, caught>>
             ELSE /\ tpc' = "rollback"
                  /\ ri' = 1
                  /\ rbEntry' = backupData[1]
                  /\ rbCall' = "manual"
                  /\ UNCHANGED <<backupData, isCommitted, isRolledBack, caught>>
  /\ UNCHANGED <<storageVars, restVars, batchVars, operations, bi, pre, restores>>

\* Rollback with lines 284-285 moved into the loop of line 276: a rollback
\* that has nothing to restore does not mark the transaction
RollbackMarksInLoop ==
  /\ TxCall
  /\ thrown' = NoErr
  /\ settled' = "no"
  /\ IF isRolledBack \/ isCommitted \/ backupData = <<>>
     THEN UNCHANGED <<backupData, isCommitted, isRolledBack, tpc, ri, rbEntry, rbCall, caught,
                      rbTried, rbFailed>>
     ELSE /\ rbTried' = {}
          /\ rbFailed' = {}
          /\ tpc' = "rollback"
          /\ ri' = 1
          /\ rbEntry' = backupData[1]
          /\ rbCall' = "manual"
          /\ UNCHANGED <<backupData, isCommitted, isRolledBack, caught>>
  /\ UNCHANGED <<storageVars, restVars, batchVars, operations, bi, pre, restores>>

\* TransactionProcessor.rollback() called by the user
Rollback ==
  /\ TxCall
  /\ thrown' = NoErr
  /\ settled' = "no"
  /\ IF isRolledBack \/ isCommitted
     THEN UNCHANGED <<backupData, isCommitted, isRolledBack, tpc, ri, rbEntry, rbCall, caught,
                      rbTried, rbFailed>>
     ELSE /\ rbTried' = {}
          /\ rbFailed' = {}
          /\ IF backupData = <<>>
             THEN /\ isRolledBack' = TRUE
                  /\ UNCHANGED <<backupData, isCommitted, tpc, ri, rbEntry, rbCall, caught>>
             ELSE /\ tpc' = "rollback"
                  /\ ri' = 1
                  /\ rbEntry' = backupData[1]
                  /\ rbCall' = "manual"
                  /\ UNCHANGED <<backupData, isCommitted, isRolledBack, caught>>
  /\ UNCHANGED <<storageVars, restVars, batchVars, operations, bi, pre, restores>>

\* one awaited restore call of rollback's loop, and what follows it
RollbackStep ==
  /\ tpc = "rollback"
  /\ LET entry == rbEntry
         tried == rbTried \cup {entry.key}
     IN \E o \in rollbackOutcomes(store, emitMode, entry) :
          /\ o.cost <= failsLeft
          /\ failsLeft' = failsLeft - o.cost
          /\ store' = o.st
          /\ restores' = restores + 1
          /\ IF ~o.ok
             THEN rollbackThrow(rbCall, tried, o.err)
             ELSE IF ri < Len(backupData)
                  THEN /\ ri' = ri + 1
                       /\ rbEntry' = backupData[ri + 1]
                       /\ rbTried' = tried
                       /\ UNCHANGED <<backupData, isCommitted, isRolledBack, tpc, rbCall,
                                      caught, thrown, settled, rbFailed>>
                  ELSE /\ isRolledBack' = TRUE
                       /\ backupData' = <<>>
                       /\ tpc' = "idle"
                       /\ rbCall' = "none"
                       /\ rbTried' = tried
                       /\ settled' = IF rbCall = "commit" THEN "returned"
                                     ELSE IF rbCall = "catch" THEN "threw" ELSE settled
                       /\ thrown' = IF rbCall = "catch" THEN caught ELSE thrown
                       /\ rbEntry' = NoEntry
                       /\ UNCHANGED <<isCommitted, ri, caught, rbFailed>>
  /\ UNCHANGED <<restVars, batchVars, operations, bi, ncalls, pre>>

\* ------------------------------- DataStorage, one awaited adapter call a step
AdapterClear(st) == [k \in Keys |-> Absent]

\* AdapterGetAll of an adapter whose record is never filled
AdapterGetAllEmpty(st) == [k \in Keys |-> Absent]

\* the record of the stored entries; a key that maps to Absent is not in it
AdapterGetAll(st) == st

NoSnapshot == [k \in Keys |-> "<n/a>"]

\* an emitter.emit(name, payload): payload is the snapshot `all` for 'change'
\* and 'clear', {key, data} for 'save', 'load' and 'delete'
Event(name, key, data, all) == [name |-> name, key |-> key, data |-> data, all |-> all]

\* dataBeforeDelete (val) and dataBeforeClear (all)
Before(val, all) == [val |-> val, all |-> all]
NoBefore == Before(Null, NoSnapshot)

Settled(ok, val, err) == [ok |-> ok, val |-> val, err |-> err]

\* a DataStorage method is called while none is in flight
StorageCall(op, key, data) ==
  /\ dpc = "idle"
  /\ scalls < MaxStorageCalls
  /\ scalls' = scalls + 1
  /\ dop' = op
  /\ dkey' = key
  /\ dval' = data
  /\ dmode' = emitMode
  /\ dswitched' = FALSE
  /\ dbefore' = NoBefore
  /\ dwrote' = FALSE
  /\ events' = <<>>
  /\ UNCHANGED <<emitMode, procVars>>

\* the awaited adapter call rejects and the method with it
AdapterRejects(err) ==
  /\ failsLeft > 0
  /\ failsLeft' = failsLeft - 1
  /\ dpc' = "idle"
  /\ dret' = Settled(FALSE, Undefined, err)
  /\ UNCHANGED <<store, dbefore, dwrote, events, fresh>>

\* DataStorage.save(key, data), lines 89-93
DSave(key, data) ==
  /\ StorageCall("save", key, data)
  /\ IF ~validateData(data)
     THEN /\ dpc' = "idle"
          /\ dret' = Settled(FALSE, Undefined, ErrInvalidData)
          /\ UNCHANGED fresh
     ELSE /\ dpc' = "write"
          /\ fresh' = [fresh EXCEPT ![key] = NoValue]
          /\ UNCHANGED dret
  /\ UNCHANGED storageVars

\* save, lines 93-101: adapter.save settles
DSaveWrite ==
  /\ dop = "save" /\ dpc = "write"
  /\ \/ AdapterRejects(ErrAdapterSave)
     \/ /\ store' = AdapterSave(store, dkey, dval)
        /\ dwrote' = TRUE
        /\ IF emitMode = "all"
           THEN /\ dpc' = "snapshot"
                /\ UNCHANGED <<events, dret, fresh>>
           ELSE /\ events' = Append(events, Event("save", dkey, dval, NoSnapshot))
                /\ dpc' = "idle"
                /\ dret' = Settled(TRUE, Undefined, NoError)
                /\ fresh' = [fresh EXCEPT ![dkey] = dval]
        /\ UNCHANGED <<failsLeft, dbefore>>
  /\ UNCHANGED <<emitMode, dop, dkey, dval, dmode, dswitched, scalls, procVars>>

\* save, delete and clear, lines 97, 123 and 138: getAll settles, 'change' is
\* emitted with what it read
DEmitChange ==
  /\ dpc = "snapshot"
  /\ \/ AdapterRejects(ErrAdapterGetAll)
     \/ /\ events' = Append(events, Event("change", NoKey, NoData, AdapterGetAll(store)))
        /\ dpc' = "idle"
        /\ dret' = Settled(TRUE, Undefined, NoError)
        /\ fresh' = IF dop = "save" THEN [fresh EXCEPT ![dkey] = dval] ELSE fresh
        /\ UNCHANGED <<storageVars, dbefore, dwrote>>
  /\ UNCHANGED <<emitMode, dop, dkey, dval, dmode, dswitched, scalls, procVars>>

\* DataStorage.load(key), line 105
DLoad(key) ==
  /\ StorageCall("load", key, NoData)
  /\ dpc' = "read"
  /\ UNCHANGED <<storageVars, dret, fresh>>

\* loadEmits with the test `data !== null` of line 108 left out
loadEmitsAlsoNull(mode, key, data) ==
  IF mode = "info" THEN <<Event("load", key, data, NoSnapshot)>> ELSE <<>>

\* load, lines 108-110: what it emits once adapter.load has returned data
loadEmits(mode, key, data) ==
  IF mode = "info" /\ data # Null THEN <<Event("load", key, data, NoSnapshot)>> ELSE <<>>

\* load, lines 105-112: adapter.load settles
DLoadRead ==
  /\ dop = "load" /\ dpc = "read"
  /\ \/ AdapterRejects(ErrAdapterLoad)
     \/ LET data == AdapterLoad(store, dkey)
        IN /\ events' = events \o loadEmits(emitMode, dkey, data)
           /\ dpc' = "idle"
           /\ dret' = Settled(TRUE, data, NoError)
           /\ UNCHANGED <<storageVars, dbefore, dwrote, fresh>>
  /\ UNCHANGED <<emitMode, dop, dkey, dval, dmode, dswitched, scalls, procVars>>

\* DataStorage.delete(key), lines 117-119
DDelete(key) ==
  /\ StorageCall("delete", key, NoData)
  /\ dpc' = IF emitMode = "info" THEN "read" ELSE "write"
  /\ fresh' = [fresh EXCEPT ![key] = NoValue]
  /\ UNCHANGED <<storageVars, dret>>

\* delete, line 117: the adapter.load for dataBeforeDelete settles
DDeleteRead ==
  /\ dop = "delete" /\ dpc = "read"
  /\ \/ AdapterRejects(ErrAdapterLoad)
     \/ /\ dbefore' = Before(AdapterLoad(store, dkey), NoSnapshot)
        /\ dpc' = "write"
        /\ UNCHANGED <<storageVars, dwrote, dret, events, fresh>>
  /\ UNCHANGED <<emitMode, dop, dkey, dval, dmode, dswitched, scalls, procVars>>

\* delete, lines 119-127: adapter.delete settles
DDeleteWrite ==
  /\ dop = "delete" /\ dpc = "write"
  /\ \/ AdapterRejects(ErrAdapterDelete)
     \/ /\ store' = AdapterDelete(store, dkey)
        /\ dwrote' = TRUE
        /\ IF emitMode = "all"
           THEN /\ dpc' = "snapshot"
                /\ UNCHANGED <<events, dret>>
           ELSE /\ events' = Append(events, Event("delete", dkey, dbefore.val, NoSnapshot))
                /\ dpc' = "idle"
                /\ dret' = Settled(TRUE, Undefined, NoError)
        /\ UNCHANGED <<failsLeft, dbefore, fresh>>
  /\ UNCHANGED <<emitMode, dop, dkey, dval, dmode, dswitched, scalls, procVars>>

\* DataStorage.clear(), lines 132-134
DClear ==
  /\ StorageCall("clear", NoKey, NoData)
  /\ dpc' = IF emitMode = "info" THEN "read" ELSE "write"
  /\ fresh' = [k \in Keys |-> NoValue]
  /\ UNCHANGED <<storageVars, dret>>

\* clear, line 132: the getAll for dataBeforeClear settles
DClearRead ==
  /\ dop = "clear" /\ dpc = "read"
  /\ \/ AdapterRejects(ErrAdapterGetAll)
     \/ /\ dbefore' = Before(Null, AdapterGetAll(store))
        /\ dpc' = "write"
        /\ UNCHANGED <<storageVars, dwrote, dret, events, fresh>>
  /\ UNCHANGED <<emitMode, dop, dkey, dval, dmode, dswitched, scalls, procVars>>

\* clear, lines 134-142: adapter.clear settles
DClearWrite ==
  /\ dop = "clear" /\ dpc = "write"
  /\ \/ AdapterRejects(ErrAdapterClear)
     \/ /\ store' = AdapterClear(store)
        /\ dwrote' = TRUE
        /\ IF emitMode = "all"
           THEN /\ dpc' = "snapshot"
                /\ UNCHANGED <<events, dret>>
           ELSE /\ events' = Append(events, Event("clear", NoKey, NoData, dbefore.all))
                /\ dpc' = "idle"
                /\ dret' = Settled(TRUE, Undefined, NoError)
        /\ UNCHANGED <<failsLeft, dbefore, fresh>>
  /\ UNCHANGED <<emitMode, dop, dkey, dval, dmode, dswitched, scalls, procVars>>

\* DataStorage.setEmitMode(mode): synchronous, also while a method is suspended
SetEmitMode(mode) ==
  /\ mode # emitMode
  /\ emitMode' = mode
  /\ dswitched' = (dswitched \/ dpc # "idle")
  /\ UNCHANGED <<storageVars, dop, dpc, dkey, dval, dmode, dbefore, dwrote, dret, events,
                 scalls, fresh, procVars>>


\* ------------------------------------------------- a batch executed again
ReplayLists == UNION {[1..n -> Ops] : n \in 0..MaxReplayOps}

\* a user calls executeBatch on a fresh BatchProcessor with a list they keep
ExecuteBatchKept ==
  /\ bpc = "idle"
  /\ \E ops \in ReplayLists, m \in 1..MaxReplayOps : executeBatchBegin(ops, m, "user")
  /\ UNCHANGED <<storageVars, restVars, txVars>>

\* executeBatch has returned; they call it again on the same BatchProcessor
\* with the same list
ExecuteBatchAgain ==
  /\ bpc = "done"
  /\ caller = "user"
  /\ replays < MaxReplays
  /\ replays' = replays + 1
  /\ afterPrev' = store
  /\ prevOk' = result.success
  /\ executeBatchBegin(input, maxBatchSize, "user")
  /\ UNCHANGED <<storageVars, emitMode, extVars, callVars, loadVars, raceVars, writerVars, txVars>>

\* ---------------------------------------------------------------- batchLoad
KeyLists == UNION {[1..n -> Keys] : n \in 0..MaxLoadKeys}

chunkArray(array, size) == chunkFrom(array, size, 0)

LoadChunks == chunkArray(lkeys, maxBatchSize)

\* no value yet for every position of a chunk
Unsettled(chunk) == [j \in 1..Len(chunk) |-> NoValue]

\* batchLoad, lines 183-188: what a position's promise resolves to
batchLoadValue(o) == IF o.ok THEN o.val ELSE Null

\* batchLoad, lines 193-195: result[key] = value for the chunk's results in order
batchLoadAssign(res, chunk, vals) ==
  [k \in Keys |->
     LET at == {j \in 1..Len(chunk) : chunk[j] = k}
     IN IF at = {} THEN res[k] ELSE vals[Last(at)]]

\* batchLoad(keys) on a BatchProcessor constructed with maxBatchSize m, up to
\* line 191: the first chunk's storage.load calls are all made
BatchLoad ==
  /\ lpc = "idle"
  /\ \E keys \in KeyLists, m \in 1..MaxLoadKeys :
       LET chunks == chunkArray(keys, BatchProcessorMaxBatchSize(m))
       IN /\ lkeys' = keys
          /\ maxBatchSize' = BatchProcessorMaxBatchSize(m)
          /\ lci' = 1
          /\ loaded' = [k \in Keys |-> Absent]
          /\ lfailed' = {}
          /\ IF keys = <<>>
             THEN lpc' = "done" /\ lpending' = {} /\ lvals' = <<>>
             ELSE /\ lpc' = "run"
                  /\ lpending' = 1..Len(chunks[1])
                  /\ lvals' = Unsettled(chunks[1])
  /\ UNCHANGED <<storageVars, emitMode, extVars, callVars, replayVars, raceVars, writerVars,
                 txVars, bpc, caller, input, ci, oi, chunkResult, result, calls>>

\* one of the chunk's storage.load calls settles; when it is the last one,
\* Promise.all resolves, the values are assigned and the next chunk's calls
\* are made, or batchLoad returns
BatchLoadStep ==
  /\ lpc = "run"
  /\ LET chunk == LoadChunks[lci]
     IN \E j \in lpending : \E o \in StorageLoad(store, chunk[j]) :
          /\ o.cost <= failsLeft
          /\ failsLeft' = failsLeft - o.cost
          /\ lfailed' = IF o.ok THEN lfailed ELSE lfailed \cup {chunk[j]}
          /\ LET vals == [lvals EXCEPT ![j] = batchLoadValue(o)]
             IN IF lpending # {j}
                THEN /\ lpending' = lpending \ {j}
                     /\ lvals' = vals
                     /\ UNCHANGED <<lpc, lci, loaded>>
                ELSE /\ loaded' = batchLoadAssign(loaded, chunk, vals)
                     /\ lci' = lci + 1
                     /\ IF lci < Len(LoadChunks)
                        THEN /\ lpending' = 1..Len(LoadChunks[lci + 1])
                             /\ lvals' = Unsettled(LoadChunks[lci + 1])
                             /\ UNCHANGED lpc
                        ELSE /\ lpc' = "done"
                             /\ lpending' = {}
                             /\ lvals' = <<>>
  /\ UNCHANGED <<store, emitMode, extVars, callVars, replayVars, raceVars, writerVars, txVars,
                 batchVars, lkeys>>

\* ------------------------------------ rollback() called during a commit()
\* the user calls rollback() while commit() is suspended at a DataStorage
\* call: lines 270-282 up to its first awaited restore
RollbackDuringCommit ==
  /\ tpc \in {"backup", "batch", "rollback"}
  /\ rbCall # "manual"
  /\ mpc = "idle"
  /\ IF isRolledBack \/ isCommitted
     THEN mpc' = "done" /\ UNCHANGED <<mri, mEntry, isRolledBack>>
     ELSE IF backupData = <<>>
     THEN mpc' = "done" /\ isRolledBack' = TRUE /\ UNCHANGED <<mri, mEntry>>
     ELSE /\ mpc' = "run"
          /\ mri' = 1
          /\ mEntry' = backupData[1]
          /\ UNCHANGED isRolledBack
  /\ UNCHANGED <<storageVars, emitMode, extVars, callVars, replayVars, loadVars, writerVars,
                 batchVars, operations, bi, ncalls, pre, restores, backupData,
                 isCommitted, tpc, ri, rbEntry, rbCall, caught, thrown, settled,
                 rbTried, rbFailed>>

\* one awaited restore of that rollback() settles: it throws (line 287), goes
\* on to the next entry of backupData, or finishes (lines 284-285)
RollbackDuringCommitStep ==
  /\ mpc = "run"
  /\ \E o \in rollbackOutcomes(store, emitMode, mEntry) :
       /\ o.cost <= failsLeft
       /\ failsLeft' = failsLeft - o.cost
       /\ store' = o.st
       /\ restores' = restores + 1
       /\ IF ~o.ok
          THEN /\ mpc' = "done"
               /\ mEntry' = NoEntry
               /\ UNCHANGED <<mri, backupData, isRolledBack>>
          ELSE IF mri < Len(backupData)
          THEN /\ mri' = mri + 1
               /\ mEntry' = backupData[mri + 1]
               /\ UNCHANGED <<mpc, backupData, isRolledBack>>
          ELSE /\ isRolledBack' = TRUE
               /\ backupData' = <<>>
               /\ mpc' = "done"
               /\ mEntry' = NoEntry
               /\ UNCHANGED mri
  /\ UNCHANGED <<emitMode, extVars, callVars, replayVars, loadVars, writerVars, batchVars,
                 operations, bi, ncalls, pre, isCommitted, tpc, ri, rbEntry, rbCall,
                 caught, thrown, settled, rbTried, rbFailed>>

\* ----------------------------------- another user of the same DataStorage
\* what the backup holds for key: the value rollback will put back
BackedUp(key) ==
  LET entry == backupData[CHOOSE i \in 1..Len(backupData) : backupData[i].key = key]
  IN IF entry.value = Null THEN Absent ELSE entry.value

\* the backup has read key and no rollback has finished since; a rollback that
\* is running has not yet restored it
BetweenBackupAndRestore(key) ==
  /\ key \in BackupKeys(backupData)
  /\ tpc = "rollback" => \E i \in ri..Len(backupData) : backupData[i].key = key

\* somebody else calls storage.save(key, value) and it settles
OtherSave(key, value) ==
  /\ wsaves < MaxOtherSaves
  /\ \E o \in StorageSave(store, emitMode, key, value) :
       /\ o.cost <= failsLeft
       /\ failsLeft' = failsLeft - o.cost
       /\ store' = o.st
       /\ wsaves' = wsaves + 1
       /\ wkey' = key
       /\ wval' = value
       /\ wbackup' = IF o.err \in {NoError, ErrAdapterGetAll} /\ BetweenBackupAndRestore(key)
                     THEN BackedUp(key) ELSE NoValue
  /\ UNCHANGED <<emitMode, extVars, callVars, replayVars, loadVars, raceVars, batchVars, txVars>>

\* ------------------------------------------------------------ BatchBuilder
\* An array is a place on the heap; a variable or field holds its index.
\* Array.prototype.push, in place
push(heap, ref, items) == [heap EXCEPT ![ref] = @ \o items]

\* [...array]: a new array with the same elements; its index is Len(heap) + 1
spread(heap, ref) == Append(heap, heap[ref])

\* what a user passes to saveMultiple, as Object.entries lists it, and to
\* deleteMultiple
EntryLists == {<<>>, <<SaveOp("k1", "a")>>, <<SaveOp("k1", "a"), SaveOp("k2", "b")>>,
               <<SaveOp("k2", "b"), SaveOp("k1", "a")>>}
DeleteLists == {<<>>, <<"k1">>, <<"k1", "k2">>, <<"k2", "k2">>}

\* a method of the builder, or of a list it returned, is called
BuilderCall ==
  /\ builder.calls < MaxBuilderCalls
  /\ UNCHANGED <<storageVars, emitMode, callVars, batchVars, txVars, replayVars,
                 loadVars, raceVars, writerVars, facade, callLimit, chunking, pacing, chat>>

\* save (lines 355-358), delete (360-363), saveMultiple (365-370) and
\* deleteMultiple (372-377) push one operation per entry
BuilderAppend(ops) ==
  /\ BuilderCall
  /\ builder' = [builder EXCEPT !.heap = push(@, builder.operations, ops),
                                !.appended = @ \o ops,
                                !.calls = @ + 1]

BuilderSave(key, value) == BuilderAppend(<<SaveOp(key, value)>>)

BuilderDelete(key) == BuilderAppend(<<DeleteOp(key)>>)

BuilderSaveMultiple(entries) == BuilderAppend(entries)

BuilderDeleteMultiple(keys) ==
  BuilderAppend([i \in 1..Len(keys) |-> DeleteOp(keys[i])])

\* build returning this.operations itself
buildReturnsOperations(b) == [heap |-> b.heap, ref |-> b.operations]

\* build, lines 379-381: the heap after it and the array it returns
build(b) == [heap |-> spread(b.heap, b.operations), ref |-> Len(b.heap) + 1]

BuilderBuild ==
  /\ BuilderCall
  /\ LET r == build(builder)
     IN builder' = [builder EXCEPT !.heap = r.heap,
                                   !.lists = Append(@, [ref |-> r.ref,
                                                        kept |-> builder.appended]),
                                   !.calls = @ + 1]

\* clear, lines 383-386: this.operations is a new, empty array
BuilderClear ==
  /\ BuilderCall
  /\ builder' = [builder EXCEPT !.heap = Append(@, <<>>),
                                !.operations = Len(builder.heap) + 1,
                                !.appended = <<>>,
                                !.calls = @ + 1]

\* count, lines 388-390
count(b) == Len(b.heap[b.operations])

\* the user changes a list that build() returned: pushes an operation onto it
ListPush(l) ==
  /\ BuilderCall
  /\ l \in 1..Len(builder.lists)
  /\ LET op == DeleteOp("k2")
     IN builder' = [builder EXCEPT !.heap = push(@, builder.lists[l].ref, <<op>>),
                                   !.lists[l].kept = Append(@, op),
                                   !.calls = @ + 1]

\* ... or empties it (list.length = 0)
ListTruncate(l) ==
  /\ BuilderCall
  /\ l \in 1..Len(builder.lists)
  /\ builder' = [builder EXCEPT !.heap[builder.lists[l].ref] = <<>>,
                                !.lists[l].kept = <<>>,
                                !.calls = @ + 1]

\* ------------------------------------------- DataStorage.getAll, any adapter
\* the object {}: no key holds a value
EmptyObject == [k \in Keys |-> Absent]

\* what an adapter's data field may be: missing (NoSnapshot), or an object
DataFields == {NoSnapshot, EmptyObject, [k \in Keys |-> IF k = "k1" THEN "a" ELSE Absent]}

\* new DataStorage(adapter), lines 68-71, for an adapter with or without a
\* getAll method and with or without a data field, over the same stored data
NewDataStorage(getAll, data) ==
  /\ facade' = [getAll |-> getAll, data |-> data, called |-> FALSE,
                ret |-> Settled(TRUE, NoSnapshot, NoError)]
  /\ UNCHANGED <<storageVars, emitMode, callVars, batchVars, txVars, replayVars,
                 loadVars, raceVars, writerVars, builder, callLimit, chunking, pacing, chat>>

\* DataStorage.getAll, lines 145-154: how the call may settle
getAll(adapter, st) ==
  IF adapter.getAll
  THEN {[ret |-> Settled(TRUE, AdapterGetAll(st), NoError), cost |-> 0],
        [ret |-> Settled(FALSE, NoSnapshot, ErrAdapterGetAll), cost |-> 1]}
  ELSE IF adapter.data # NoSnapshot
  THEN {[ret |-> Settled(TRUE, adapter.data, NoError), cost |-> 0]}
  ELSE {[ret |-> Settled(TRUE, EmptyObject, NoError), cost |-> 0]}

\* storage.getAll() is called and settles
GetAll ==
  /\ ~facade.called
  /\ \E o \in getAll(facade, store) :
       /\ o.cost <= failsLeft
       /\ failsLeft' = failsLeft - o.cost
       /\ facade' = [facade EXCEPT !.called = TRUE, !.ret = o.ret]
  /\ UNCHANGED <<store, emitMode, callVars, batchVars, txVars, replayVars,
                 loadVars, raceVars, writerVars, builder, callLimit, chunking, pacing, chat>>

\* ------------------------------------ a chunk that throws before its calls
\* a null element of the operations array: reading its type throws
NullOp == [type |-> Null, key |-> NoKey, value |-> Undefined]
ErrTypeError == "Cannot read properties of null (reading 'type')"

\* the elements a caller may pass when the array is not checked
ThrowOps == {SaveOp("k1", "b"), SaveOp("k2", "a"), DeleteOp("k1"), NullOp}
ThrowLists == UNION {[1..n -> ThrowOps] : n \in 0..MaxOps}

\* executeChunk, lines 88-89: the filter callbacks read op.type of every
\* element before the first DataStorage call, and throw on a null element
filterThrows(chunk) == \E i \in 1..Len(chunk) : chunk[i].type = Null

\* the summary error of executeBatch's catch clause, line 70, with n = i + 1
BatchError(n, msg) == <<"Batch failed", n, msg>>

\* executeBatchCatch of a catch clause that returns what it has
executeBatchCatchReturns(res, n, msg, last) ==
  [result |-> [success |-> FALSE, operations |-> res.operations,
               errors |-> Append(res.errors, BatchError(n, msg))],
   bpc |-> "done"]

\* executeBatch, lines 68-72: executeChunk of chunk n threw msg; the loop goes
\* on with the next chunk, or ends when n is the last one
executeBatchCatch(res, n, msg, last) ==
  [result |-> [success |-> FALSE, operations |-> res.operations,
               errors |-> Append(res.errors, BatchError(n, msg))],
   bpc |-> IF n < last THEN "run" ELSE "done"]

\* a user calls executeBatch with an array that may hold null elements
ExecuteBatchUnchecked ==
  /\ bpc = "idle"
  /\ \E ops \in ThrowLists, m \in 1..MaxOps : executeBatchBegin(ops, m, "user")
  /\ UNCHANGED <<storageVars, restVars, txVars>>

\* executeChunk of the chunk at hand throws in its filters
ExecuteChunkThrows ==
  /\ bpc = "run"
  /\ filterThrows(Chunks[ci])
  /\ LET c == executeBatchCatch(result, ci, ErrTypeError, Len(Chunks))
     IN /\ result' = c.result
        /\ bpc' = c.bpc
  /\ ci' = ci + 1
  /\ UNCHANGED <<storageVars, restVars, txVars, caller, input, maxBatchSize, oi,
                 chunkResult, calls>>

\* executeChunk of the chunk at hand gets past its filters
ExecuteChunkStepFiltered ==
  /\ bpc = "run"
  /\ ~filterThrows(Chunks[ci])
  /\ ExecuteChunkStep

\* ------------------------------------------------ delays between chunks
\* what a caller may pass as options.delayBetweenBatches, in milliseconds
DelayOptions == {0, 10}

\* the constructor, line 39: options.delayBetweenBatches || 0
BatchProcessorDelay(option) == option

\* executeBatch, line 64, after chunk i of n (i counted from 0) has returned
delayDue(i, n, delay) == i < n - 1 /\ delay > 0

\* executeBatch is at the await of line 65: the chunk before chunk ci has
\* returned without throwing, the test of line 64 held, and the delay before
\* chunk ci has not yet been awaited
AtDelay ==
  /\ bpc \in {"run", "done"}
  /\ oi = 1
  /\ ci > 1
  /\ ~filterThrows(Chunks[ci - 1])
  /\ delayDue(ci - 2, Len(Chunks), pacing.delay)
  /\ pacing.at # ci

\* a user constructs a BatchProcessor with a delay option and calls executeBatch
ExecuteBatchPaced ==
  /\ bpc = "idle"
  /\ \E ops \in ThrowLists, m \in 1..MaxOps : executeBatchBegin(ops, m, "user")
  /\ \E d \in DelayOptions :
       pacing' = [delay |-> BatchProcessorDelay(d), at |-> 0, slept |-> <<>>]
  /\ UNCHANGED <<storageVars, emitMode, callVars, txVars, replayVars, loadVars,
                 raceVars, writerVars, builder, facade, callLimit, chunking, chat>>

\* the delay of line 65 is awaited: which chunk it follows and how many
\* DataStorage calls had settled by then
DelayStep ==
  /\ AtDelay
  /\ pacing' = [pacing EXCEPT !.at = ci,
                              !.slept = Append(@, [after |-> ci - 1,
                                                   calls |-> Len(calls)])]
  /\ UNCHANGED <<storageVars, emitMode, callVars, txVars, replayVars, loadVars,
                 raceVars, writerVars, builder, facade, callLimit, chunking,
                 chat, batchVars>>

\* the next chunk starts once no delay is to be awaited
ExecuteChunkStepPaced ==
  /\ bpc = "run"
  /\ ~AtDelay
  /\ ~filterThrows(Chunks[ci])
  /\ ExecuteChunkStep

ExecuteChunkThrowsPaced ==
  /\ bpc = "run"
  /\ ~AtDelay
  /\ ExecuteChunkThrows

\* ------------------------------------- chunkOperations, followed step by step
\* what a caller may pass as options.maxBatchSize: negative, 0, positive
SizeOptions == {-1, 0, 1, 2}

Max(a, b) == IF a > b THEN a ELSE b

\* Array.prototype.slice(from, to) for any integers: a negative index counts
\* from the end of the array
arraySlice(s, from, to) ==
  LET rel(x) == IF x < 0 THEN Max(Len(s) + x, 0) ELSE Min(x, Len(s))
  IN SubSeq(s, rel(from) + 1, rel(to))

\* a user constructs a BatchProcessor with any maxBatchSize option and calls
\* executeBatch: lines 44-51, up to chunkOperations' loop
ExecuteBatchWith ==
  /\ bpc = "idle"
  /\ \E ops \in ReplayLists, option \in SizeOptions :
       /\ input' = WithIds(ops)
       /\ maxBatchSize' = BatchProcessorMaxBatchSize(option)
  /\ caller' = "user"
  /\ ci' = 1
  /\ oi' = 1
  /\ chunkResult' = EmptyResult
  /\ result' = EmptyResult
  /\ calls' = <<>>
  /\ bpc' = "chunk"
  /\ chunking' = [i |-> 0, chunks |-> <<>>]
  /\ UNCHANGED <<storageVars, emitMode, callVars, txVars, replayVars, loadVars,
                 raceVars, writerVars, builder, facade, callLimit, pacing, chat>>

\* one test of chunkOperations' loop condition, line 138: one more chunk is
\* pushed and i advanced by maxBatchSize, or the loop ends and executeBatch
\* goes on to its first chunk, or returns when there is none
ChunkOperationsStep ==
  /\ bpc = "chunk"
  /\ IF chunking.i < Len(input)
     THEN /\ Len(chunking.chunks) < MaxChunkSteps
          /\ chunking' = [i |-> chunking.i + maxBatchSize,
                          chunks |-> Append(chunking.chunks,
                                            arraySlice(input, chunking.i,
                                                       chunking.i + maxBatchSize))]
          /\ UNCHANGED bpc
     ELSE /\ bpc' = IF chunking.chunks = <<>> THEN "done" ELSE "run"
          /\ UNCHANGED chunking
  /\ UNCHANGED <<storageVars, emitMode, callVars, txVars, replayVars, loadVars,
                 raceVars, writerVars, builder, facade, callLimit, pacing, chat, caller,
                 input, maxBatchSize, ci, oi, chunkResult, result, calls>>

\* --------------------------------------- ChatMemory, PersistentChatMemory
\* a message; one added through PersistentChatMemory has no timestamp
Message(role, content, timestamp) ==
  [role |-> role, content |-> content, timestamp |-> timestamp]

Now == "<now>"

\* a value of the adapter's 'chat-memory' entry and of a load of it: a list
\* of messages, or nothing (the entry is missing, the load resolved to null)
Messages(list) == [present |-> TRUE, list |-> list]
NoMessages == [present |-> FALSE, list |-> <<>>]

\* what the adapter may hold when the PersistentChatMemory is constructed:
\* nothing, an empty history, or a history another instance saved
Histories ==
  {NoMessages, Messages(<<>>),
   Messages(<<Message("user", "h1", Undefined), Message("assistant", "h2", "t0")>>)}

\* String contents of the added messages, by position
Contents == <<"m1", "m2", "m3", "m4">>

\* ChatMemory.getMessages, line 23: a copy of the list
getMessages(messages) == messages

\* ChatMemory.getLastMessages(n), line 32: this.messages.slice(-n), where -0
\* is 0 and slice(0) is the whole array
getLastMessages(messages, n) == arraySlice(messages, -n, Len(messages))

\* loadMessages, lines 76-82: what this.messages is once the load of saved
\* has resolved; the map gives every message without a timestamp the current
\* date. An array, empty or not, is truthy
loadMessagesRestore(messages, saved) ==
  IF saved.present
  THEN [i \in 1..Len(saved.list) |->
          Message(saved.list[i].role, saved.list[i].content,
                  IF saved.list[i].timestamp = Undefined THEN Now
                  ELSE saved.list[i].timestamp)]
  ELSE messages

ChatCall ==
  UNCHANGED <<storageVars, emitMode, callVars, batchVars, txVars, replayVars,
              loadVars, raceVars, writerVars, builder, facade, callLimit, chunking,
              pacing>>

\* new PersistentChatMemory(adapter), lines 49-53, over an InMemoryAdapter:
\* loadMessages is called and not awaited; the adapter reads the entry during
\* the call, the rest of loadMessages runs when the promise has resolved
NewPersistentChatMemory ==
  /\ ~chat.constructed
  /\ \E history \in Histories :
       chat' = [chat EXCEPT !.constructed = TRUE, !.entry = history,
                            !.loadPending = TRUE, !.saved = history]
  /\ ChatCall

\* loadMessages after its await, lines 76-83
LoadMessagesResumes ==
  /\ chat.loadPending
  /\ chat' = [chat EXCEPT !.loadPending = FALSE,
                          !.messages = loadMessagesRestore(chat.messages, chat.saved),
                          !.loaded = TRUE]
  /\ ChatCall

\* addUserMessage / addAIMessage of PersistentChatMemory, lines 55-63: the
\* message is pushed and saveMessages called, not awaited; the adapter sets
\* the entry to the copy getMessages returns during the call
AddMessage(role) ==
  /\ chat.constructed
  /\ Len(chat.added) < MaxMessages
  /\ LET msg == Message(role, Contents[Len(chat.added) + 1], Undefined)
         messages == Append(chat.messages, msg)
     IN chat' = [chat EXCEPT !.messages = messages,
                             !.entry = Messages(getMessages(messages)),
                             !.savesPending = @ + 1,
                             !.added = Append(@, msg)]
  /\ ChatCall

AddUserMessage == AddMessage("user")
AddAIMessage == AddMessage("assistant")

\* a saveMessages call resumes after its await and returns, line 71
SaveMessagesResumes ==
  /\ chat.savesPending > 0
  /\ chat' = [chat EXCEPT !.savesPending = @ - 1]
  /\ ChatCall

\* getLastMessages(n) is called, for any n from 0 on
GetLastMessages ==
  /\ chat.constructed
  /\ \E n \in 0..(MaxMessages + 3) :
       chat' = [chat EXCEPT !.asked = n,
                            !.last = getLastMessages(chat.messages, n)]
  /\ ChatCall

\* --------------------------------------------------------- specifications
\* The adapter holds any data when the DataStorage is constructed around it;
\* the emit mode is the constructor's 'all', in which a save or a delete can
\* reject without having written (the adapter's write rejects) or after
\* having written (the snapshot read for the 'change' event rejects).
InitWith(fails, limit) ==
  /\ store \in [Keys -> InitialValues \cup {Absent}]
  /\ emitMode = "all"
  /\ failsLeft = fails
  /\ callLimit = limit
  /\ chunking = [i |-> 0, chunks |-> <<>>]
  /\ pacing = [delay |-> 0, at |-> 0, slept |-> <<>>]
  /\ chat = [constructed |-> FALSE, messages |-> <<>>, entry |-> NoMessages,
             loadPending |-> FALSE, saved |-> NoMessages, savesPending |-> 0,
             loaded |-> FALSE, added |-> <<>>, asked |-> 0, last |-> <<>>]
  /\ bpc = "idle"
  /\ caller = "none"
  /\ input = <<>>
  /\ maxBatchSize = DefaultMaxBatchSize
  /\ ci = 1
  /\ oi = 1
  /\ chunkResult = EmptyResult
  /\ result = EmptyResult
  /\ calls = <<>>
  /\ operations = <<>>
  /\ backupData = <<>>
  /\ isCommitted = FALSE
  /\ isRolledBack = FALSE
  /\ tpc = "idle"
  /\ bi = 1
  /\ ri = 1
  /\ rbCall = "none"
  /\ caught = NoErr
  /\ ncalls = 0
  /\ thrown = NoErr
  /\ settled = "no"
  /\ pre = store
  /\ restores = 0
  /\ rbTried = {}
  /\ rbFailed = {}
  /\ dop = "none"
  /\ dpc = "idle"
  /\ dkey = NoKey
  /\ dval = NoData
  /\ dmode = emitMode
  /\ dswitched = FALSE
  /\ dbefore = NoBefore
  /\ dwrote = FALSE
  /\ dret = Settled(TRUE, Undefined, NoError)
  /\ events = <<>>
  /\ scalls = 0
  /\ fresh = [k \in Keys |-> NoValue]
  /\ replays = 0
  /\ afterPrev = [k \in Keys |-> Absent]
  /\ prevOk = TRUE
  /\ lpc = "idle"
  /\ lkeys = <<>>
  /\ lci = 1
  /\ lpending = {}
  /\ lvals = <<>>
  /\ loaded = [k \in Keys |-> Absent]
  /\ lfailed = {}
  /\ rbEntry = NoEntry
  /\ mpc = "idle"
  /\ mri = 1
  /\ mEntry = NoEntry
  /\ wsaves = 0
  /\ wkey = NoKey
  /\ wval = NoData
  /\ wbackup = NoValue
  /\ builder = [heap |-> <<(<<>>)>>, operations |-> 1, appended |-> <<>>,
                lists |-> <<>>, calls |-> 0]
  /\ facade = [getAll |-> TRUE, data |-> NoSnapshot, called |-> FALSE,
               ret |-> Settled(TRUE, NoSnapshot, NoError)]

\* at most MaxFails adapter calls reject, at most MaxCalls methods of the
\* transaction are called
Init == InitWith(MaxFails, MaxCalls)

\* BatchProcessor.executeBatch called once on a populated store
NextBatch ==
  \/ ExecuteBatch
  \/ ExecuteChunkStep

\* save and delete never read what is stored (in mode 'all' not even the value
\* to be deleted), so a stored falsy value behaves as a stored truthy one
InitBatch == Init /\ \A k \in Keys : ~Falsy(store[k])

SpecBatch == InitBatch /\ [][NextBatch]_vars

\* one TransactionProcessor on a populated store
NextTx ==
  \/ \E op \in Ops : op.type = "save" /\ TxSave(op.key, op.value)
  \/ \E key \in Keys : TxDelete(key)
  \/ TxClear
  \/ Commit
  \/ CreateBackupStep
  \/ ExecuteChunkStep
  \/ Rollback
  \/ RollbackStep

SpecTx == Init /\ [][NextTx]_vars

\* one caller of a DataStorage over a populated store, one method at a time,
\* who may switch the emit mode at any moment
NextStorage ==
  \/ \E key \in Keys, data \in SaveValues : DSave(key, data)
  \/ DSaveWrite
  \/ DEmitChange
  \/ \E key \in Keys : DLoad(key)
  \/ DLoadRead
  \/ \E key \in Keys : DDelete(key)
  \/ DDeleteRead
  \/ DDeleteWrite
  \/ DClear
  \/ DClearRead
  \/ DClearWrite
  \/ \E mode \in EmitModes : SetEmitMode(mode)

SpecStorage == Init /\ [][NextStorage]_vars

\* one TransactionProcessor that is used on after a commit() failed and could
\* not roll back: one more call and one more rejection than in SpecTx, on a
\* store that holds 'a' under k1 and nothing under k2
StoreAtStart == [k \in Keys |-> IF k = "k1" THEN "a" ELSE Absent]

InitTxReuse == InitWith(MaxFails + 1, MaxCalls + 1) /\ store = StoreAtStart

SpecTxReuse == InitTxReuse /\ [][NextTx]_vars

\* one TransactionProcessor whose user calls rollback() during a commit()
NextTxRace ==
  \/ \E op \in Ops : op.type = "save" /\ TxSave(op.key, op.value)
  \/ \E key \in Keys : TxDelete(key)
  \/ Commit
  \/ CreateBackupStep
  \/ ExecuteChunkStep
  \/ RollbackStep
  \/ RollbackDuringCommit
  \/ RollbackDuringCommitStep

SpecTxRace == Init /\ [][NextTxRace]_vars

\* one TransactionProcessor that is filled and committed while somebody else
\* saves 'b' under k1 on the same DataStorage, at a time when the transaction
\* holds a backup
NextTxWriter ==
  \/ \E op \in Ops : op.type = "save" /\ TxSave(op.key, op.value)
  \/ \E key \in Keys : TxDelete(key)
  \/ Commit
  \/ CreateBackupStep
  \/ ExecuteChunkStep
  \/ RollbackStep
  \/ backupData # <<>> /\ OtherSave("k1", "b")

\* the adapter holds 'a' or nothing under k1 and nothing under k2
InitWriter == Init /\ store["k2"] = Absent /\ ~Falsy(store["k1"])

SpecTxWriter == InitWriter /\ [][NextTxWriter]_vars

\* one BatchBuilder and the lists it returned
NextBuilder ==
  \/ \E op \in {SaveOp("k1", "a"), SaveOp("k2", "b")} : BuilderSave(op.key, op.value)
  \/ BuilderDelete("k1")
  \/ \E entries \in EntryLists : BuilderSaveMultiple(entries)
  \/ \E keys \in DeleteLists : BuilderDeleteMultiple(keys)
  \/ BuilderBuild
  \/ BuilderClear
  \/ \E l \in 1..MaxBuilderCalls : ListPush(l)
  \/ \E l \in 1..MaxBuilderCalls : ListTruncate(l)

InitBuilder == Init /\ store = [k \in Keys |-> Absent]

SpecBuilder == InitBuilder /\ [][NextBuilder]_vars

\* DataStorage objects constructed over adapters of every shape, and getAll
\* called on them
NextGetAll ==
  \/ \E g \in BOOLEAN, data \in DataFields : NewDataStorage(g, data)
  \/ GetAll

SpecGetAll == Init /\ [][NextGetAll]_vars

\* executeBatch called once with an array that may hold null elements
NextBatchThrow ==
  \/ ExecuteBatchUnchecked
  \/ ExecuteChunkThrows
  \/ ExecuteChunkStepFiltered

SpecBatchThrow == InitBatch /\ [][NextBatchThrow]_vars

\* one PersistentChatMemory over an InMemoryAdapter and its user
NextChat ==
  \/ NewPersistentChatMemory
  \/ LoadMessagesResumes
  \/ AddUserMessage
  \/ AddAIMessage
  \/ SaveMessagesResumes
  \/ GetLastMessages

\* the adapter holds nothing but the entry 'chat-memory'
InitChat == Init /\ store = [k \in Keys |-> Absent]

SpecChat == InitChat /\ [][NextChat]_vars

\* executeBatch called once on a BatchProcessor constructed with a delay option
NextBatchPaced ==
  \/ ExecuteBatchPaced
  \/ DelayStep
  \/ ExecuteChunkStepPaced
  \/ ExecuteChunkThrowsPaced

SpecBatchPaced == InitBatch /\ [][NextBatchPaced]_vars

\* executeBatch on a BatchProcessor constructed with any maxBatchSize option;
\* synchronous code runs on and every DataStorage call settles
NextBatchAny ==
  \/ ExecuteBatchWith
  \/ ChunkOperationsStep
  \/ ExecuteChunkStep

SpecBatchAny ==
  /\ InitBatch
  /\ [][NextBatchAny]_vars
  /\ WF_vars(ChunkOperationsStep)
  /\ WF_vars(ExecuteChunkStep)

\* a batch executed on a populated store, and then again
NextReplay ==
  \/ ExecuteBatchKept
  \/ ExecuteChunkStep
  \/ ExecuteBatchAgain

SpecReplay == Init /\ [][NextReplay]_vars

\* BatchProcessor.batchLoad called once on a populated store
NextLoad ==
  \/ BatchLoad
  \/ BatchLoadStep

SpecLoad == Init /\ [][NextLoad]_vars

\* ------------------------------------------------------------ properties
BatchDone == bpc = "done"

Failed(res) == {j \in 1..Len(res.operations) : ~res.operations[j].success}

\* C2: executeBatch returns exactly one result entry per input operation:
\* as many entries as operations, and each operation object in exactly one.
C2_OneResultPerOperation ==
  BatchDone =>
    /\ Len(result.operations) = Len(input)
    /\ \A i \in 1..Len(input) :
         Cardinality({j \in 1..Len(result.operations) :
                        result.operations[j].operation = input[i]}) = 1

\* a batch of three operations in chunks of two, one of which failed
C2_Witness ==
  /\ BatchDone
  /\ Len(input) = 3
  /\ maxBatchSize = 2
  /\ ~result.success

\* C3: the i-th result entry of executeBatch is for the i-th input operation.
C3_ResultsInInputOrder ==
  BatchDone =>
    \A i \in 1..Min(Len(input), Len(result.operations)) :
      result.operations[i].operation = input[i]

EntryOf(id) ==
  CHOOSE e \in {result.operations[j] : j \in 1..Len(result.operations)} :
    e.operation.id = id

\* the failed entries whose operation DataStorage does not reject by itself
FailedByAdapter(res) ==
  {j \in Failed(res) : res.operations[j].operation.type = "delete"
                          \/ validateData(res.operations[j].operation.value)}

\* C5: when executeBatch has returned, every input operation was handed to
\* DataStorage exactly once, also after a sibling failed; an operation fails
\* only by its own call (its value is invalid, or one adapter call of its
\* own rejected), never by a sibling's failure; every call that resolved is
\* reported with success = true, and its write is still in the store unless
\* a later call of the batch wrote the same key.
C5_PartialFailureIsolation ==
  (BatchDone /\ caller = "user") =>
    /\ Len(calls) = Len(input)
    /\ {calls[j].id : j \in 1..Len(calls)} = 1..Len(input)
    /\ Cardinality(FailedByAdapter(result)) = MaxFails - failsLeft
    /\ \A j \in 1..Len(calls) :
         calls[j].ok =>
           /\ EntryOf(calls[j].id).success
           /\ LET op == input[calls[j].id]
              IN (\A l \in (j + 1)..Len(calls) : input[calls[l].id].key # op.key)
                   => store[op.key] = IF op.type = "save" THEN op.value ELSE Absent

\* a chunk of three operations whose second call failed, whose first and
\* third resolved, the third writing a value that the store now holds
C5_Witness ==
  /\ BatchDone
  /\ caller = "user"
  /\ Len(Chunks) = 1
  /\ Len(calls) = 3
  /\ calls[1].ok /\ ~calls[2].ok /\ calls[3].ok
  /\ ~result.success
  /\ input[calls[3].id].type = "save"
  /\ store[input[calls[3].id].key] # pre[input[calls[3].id].key]

\* the calls of executeChunk whose save rejected with the error of the
\* snapshot read
SnapshotFailedSaves ==
  {j \in 1..Len(calls) : /\ input[calls[j].id].type = "save"
                         /\ EntryOf(calls[j].id).error = ErrAdapterGetAll}

\* C31: in mode 'all' a save whose snapshot read for the 'change' event
\* rejected is reported with success = false, and so is the batch, while its
\* value is in the store unless a later call of the batch wrote the same key.
C31_FailedSaveIsStored ==
  (BatchDone /\ caller = "user" /\ emitMode = "all") =>
    \A j \in SnapshotFailedSaves :
      LET op == input[calls[j].id]
      IN /\ ~calls[j].ok
         /\ ~EntryOf(op.id).success
         /\ ~result.success
         /\ (\A l \in (j + 1)..Len(calls) : input[calls[l].id].key # op.key)
              => store[op.key] = op.value

\* a batch of one save of a value the store did not hold, reported as failed
\* by the snapshot read, with the value stored
C31_Witness ==
  /\ BatchDone
  /\ caller = "user"
  /\ emitMode = "all"
  /\ Len(input) = 1
  /\ SnapshotFailedSaves = {1}
  /\ ~result.success
  /\ store[input[1].key] = input[1].value
  /\ pre[input[1].key] # input[1].value

\* the keys the transaction's operations reference
TouchedKeys == {operations[i].key : i \in 1..Len(operations)}

\* the last commit() on an open transaction has settled without reporting
\* success: it threw, or it returned a result with success = false
CommitFailed ==
  /\ tpc = "idle"
  /\ \/ settled = "threw"
     \/ settled = "returned" /\ ~result.success

\* C1: once a commit() that does not report success has settled, every key
\* the transaction references holds the value it had when commit() was called.
C1_RollbackRestores ==
  CommitFailed => \A k \in TouchedKeys : store[k] = pre[k]

\* C6: when commit() has returned or thrown, the transaction is Committed if
\* the batch fully succeeded and RolledBack otherwise, never still open.
C6_NeverOpenAfterCommit ==
  (tpc = "idle" /\ settled # "no") =>
    IF result.success THEN isCommitted /\ ~isRolledBack
                      ELSE isRolledBack /\ ~isCommitted

\* a call of save, delete, clear or commit on the transaction
MutatorCall ==
  \/ \E op \in Ops : op.type = "save" /\ TxSave(op.key, op.value)
  \/ \E key \in Keys : TxDelete(key)
  \/ TxClear
  \/ Commit

\* C7: save, delete, clear and commit on a Committed transaction throw
\* 'Transaction has already been committed', on a RolledBack one
\* 'Transaction has been rolled back'; the pending operations stay as they
\* are and no DataStorage call is made.
C7_TerminalRejects ==
  [][((isCommitted \/ isRolledBack) /\ MutatorCall) =>
       /\ thrown' = Err(IF isCommitted THEN ErrCommitted ELSE ErrRolledBack, NoError)
       /\ tpc' = "idle"
       /\ UNCHANGED <<operations, backupData, isCommitted, isRolledBack, store,
                      failsLeft, bpc, calls, restores>>]_vars

\* a rolled-back transaction with a pending operation has rejected a call
C7_Witness ==
  /\ isRolledBack
  /\ operations # <<>>
  /\ thrown = Err(ErrRolledBack, NoError)

\* C8: a rollback call that throws has attempted the restore of every
\* backed-up key first.
C8_RollbackTriesEveryKey ==
  \A f \in rbFailed : f.tried = f.keys

\* the value of the last save of key k among the pending operations
LastSaved(k) ==
  LET saves == {i \in 1..Len(operations) :
                  operations[i].type = "save" /\ operations[i].key = k}
  IN operations[CHOOSE i \in saves : \A j \in saves : j <= i].value

SavedKeys == {operations[i].key : i \in {j \in 1..Len(operations) :
                                            operations[j].type = "save"}}
DeletedKeys == {operations[i].key : i \in {j \in 1..Len(operations) :
                                              operations[j].type = "delete"}}

\* the last commit() on an open transaction has settled and every operation
\* of the transaction succeeded
CommitAllSucceeded ==
  /\ tpc = "idle"
  /\ settled # "no"
  /\ Len(result.operations) = Len(operations)
  /\ Failed(result) = {}

\* C9 as stated: if every operation succeeds, commit() returns success = true,
\* the transaction is Committed, no restore write is issued, every key the
\* transaction saved holds its saved value and the other keys are unchanged.
C9_CommitAppliesEverySave ==
  CommitAllSucceeded =>
    /\ settled = "returned"
    /\ result.success
    /\ isCommitted /\ ~isRolledBack
    /\ restores = 0
    /\ \A k \in SavedKeys : store[k] = LastSaved(k)
    /\ \A k \in Keys \ TouchedKeys : store[k] = pre[k]

\* C9 amended: as C9, for the keys the transaction saves and does not delete.
C9_CommitAppliesSavesNotDeleted ==
  CommitAllSucceeded =>
    /\ settled = "returned"
    /\ result.success
    /\ isCommitted /\ ~isRolledBack
    /\ restores = 0
    /\ \A k \in SavedKeys \ DeletedKeys : store[k] = LastSaved(k)
    /\ \A k \in Keys \ TouchedKeys : store[k] = pre[k]

\* a committed transaction of two saves that changed the store
C9_Witness ==
  /\ CommitAllSucceeded
  /\ isCommitted
  /\ Len(operations) = 2
  /\ DeletedKeys = {}
  /\ \E k \in SavedKeys : store[k] # pre[k] /\ store[k] = LastSaved(k)

\* C10: a commit() on an open transaction that throws leaves the backup
\* unrestored: when the transaction is RolledBack as commit() settles, commit()
\* has returned the failed result, with its errors, and has not thrown.
C10_ThrowsOnlyWhenUnrestored ==
  (tpc = "idle" /\ settled # "no" /\ isRolledBack) =>
    /\ settled = "returned"
    /\ ~result.success
    /\ result.errors # <<>>

\* the transaction is Open and commit() was never called on it
NeverCommitted == ~isCommitted /\ ~isRolledBack /\ tpc = "idle" /\ bpc = "idle"

\* C21: rollback() on an Open transaction on which commit() was never called
\* makes no DataStorage call and changes no key, the store still being what
\* it was when the transaction was created (no pending operation was ever
\* applied), and leaves the transaction RolledBack.
C21_RollbackBeforeCommit ==
  [][(NeverCommitted /\ Rollback) =>
       /\ store' = store
       /\ store' = pre
       /\ failsLeft' = failsLeft
       /\ restores' = restores
       /\ tpc' = "idle"
       /\ thrown' = NoErr
       /\ isRolledBack' /\ ~isCommitted']_vars

\* a transaction with pending operations was rolled back before any commit()
C21_Witness ==
  /\ isRolledBack
  /\ bpc = "idle"
  /\ tpc = "idle"
  /\ operations # <<>>
  /\ thrown = NoErr

\* the backup read made by this step was rejected
BackupReadFails == tpc = "backup" /\ failsLeft' < failsLeft

\* this step is the last restore of a rollback that completes
RollbackCompletes == tpc = "rollback" /\ isRolledBack'

\* the keys the backup records as absent
RecordedAbsent == {backupData[i].key : i \in {j \in 1..Len(backupData) :
                                                 backupData[j].value = Null}}

\* C29: a backup read that fails records its key as absent, with the entry a
\* read of null leaves, and a rollback that completes leaves every key
\* recorded as absent without a value.
C29_FailedReadIsAbsent ==
  [][/\ BackupReadFails =>
          backupData' = Append(backupData, [key |-> operations[bi].key, value |-> Null])
     /\ RollbackCompletes => \A k \in RecordedAbsent : store'[k] = Absent]_vars

\* a commit has rolled back and left without a value a key that held one when
\* it was called and that no pending operation deletes
C29_Witness ==
  /\ tpc = "idle"
  /\ isRolledBack
  /\ settled = "returned"
  /\ \E k \in TouchedKeys :
       /\ pre[k] # Absent
       /\ ~Falsy(pre[k])
       /\ store[k] = Absent
       /\ \A i \in 1..Len(operations) :
            operations[i].key = k => operations[i].type = "save"

\* C30: once commit() or rollback() has completed, the list of pending
\* operations and the backup are both empty.
C30_ListsDiscarded ==
  (tpc = "idle" /\ (isCommitted \/ isRolledBack)) =>
    getPendingOperations = <<>> /\ backupData = <<>>

\* C34: rollback() on a Committed or RolledBack transaction makes no
\* DataStorage call, throws nothing and leaves the transaction as it is.
C34_RollbackOnTerminalIsNoOp ==
  [][((isCommitted \/ isRolledBack) /\ Rollback) =>
       /\ thrown' = NoErr
       /\ tpc' = "idle"
       /\ UNCHANGED <<store, failsLeft, restores, bpc, calls, operations, backupData,
                      isCommitted, isRolledBack>>]_vars

\* rollback() was the last call made on a Committed transaction that has a
\* pending operation
C34_Witness ==
  /\ isCommitted
  /\ tpc = "idle"
  /\ settled = "no"
  /\ thrown = NoErr
  /\ operations # <<>>

\* --------------------------------------------- properties of DataStorage
\* the last DataStorage method called has settled
CallResolved(op) == dop = op /\ dpc = "idle" /\ dret.ok
CallRejected(op) == dop = op /\ dpc = "idle" /\ ~dret.ok

\* a value save must refuse: null, undefined, or one JSON cannot represent
NotStorable(data) ==
  data = Null \/ data = Undefined \/ JSONStringify(data) \in {Throws, Undefined}

\* C15: a save of a null, undefined or non-serializable value is rejected with
\* 'Invalid data format' at once: no adapter write is attempted, nothing is
\* written and no event is emitted.
C15_InvalidSaveRejected ==
  (dop = "save" /\ NotStorable(dval)) =>
    /\ dpc = "idle"
    /\ dret = Settled(FALSE, Undefined, ErrInvalidData)
    /\ ~dwrote
    /\ events = <<>>

\* C16: a load(k) that returns while the last save(k, v) that resolved is
\* still the last save, delete or clear of k returns v.
C16_SaveLoadRoundTrip ==
  (CallResolved("load") /\ fresh[dkey] # NoValue) => dret.val = fresh[dkey]

\* the event a save that found the mode to be `mode` emits once it has written
SaveEvent(mode) ==
  IF mode = "all" THEN Event("change", NoKey, NoData, store)
                  ELSE Event("save", dkey, dval, NoSnapshot)

\* C17: a save never emits before its adapter write has resolved and never
\* emits twice; a save that resolved has emitted exactly one event, a 'change'
\* with the snapshot that holds the value written or a 'save' with the key and
\* the value; when the mode was not switched during the call, 'change' in mode
\* 'all' and 'save' in mode 'info'.
C17_SaveEmitsOnce ==
  dop = "save" =>
    /\ events # <<>> => dwrote
    /\ Len(events) <= 1
    /\ CallResolved("save") =>
         /\ Len(events) = 1
         /\ store[dkey] = dval
         /\ events[1] \in {SaveEvent("all"), SaveEvent("info")}
         /\ ~dswitched => events[1] = SaveEvent(dmode)

\* a save called in mode 'info', with no switch while it ran, has resolved
\* and emitted its one 'save' event
C17_Witness ==
  /\ CallResolved("save")
  /\ dmode = "info"
  /\ ~dswitched
  /\ events = <<Event("save", dkey, dval, NoSnapshot)>>

\* C18: no step of a load changes the store; a load emits nothing but one
\* 'load' event with the key and the value, and that exactly when it returns
\* a non-null value in mode 'info' (as it is when the adapter has answered);
\* a load of a missing key that returns returns null; a load that rejects
\* has emitted nothing.
C18_LoadReadsOnly ==
  [][dop' = "load" =>
       /\ store' = store
       /\ (dpc = "read" /\ dpc' = "idle") =>
            /\ dret'.ok =>
                 /\ store[dkey] = Absent => dret'.val = Null
                 /\ events' = IF emitMode = "info" /\ dret'.val # Null
                              THEN <<Event("load", dkey, dret'.val, NoSnapshot)>>
                              ELSE <<>>
            /\ ~dret'.ok => events' = <<>>]_vars

\* a load in mode 'info' has returned a stored value and emitted 'load'
C18_Witness ==
  /\ CallResolved("load")
  /\ dmode = "info"
  /\ dret.val = "a"
  /\ events = <<Event("load", dkey, "a", NoSnapshot)>>

\* C19: a delete called in mode 'info' whose read of the value to be deleted
\* failed has removed the key all the same.
C19_DeleteDespiteFailedRead ==
  (CallRejected("delete") /\ dmode = "info" /\ dret.err = ErrAdapterLoad) =>
    store[dkey] = Absent

\* the event name of a method under each mode
EventName(op, mode) == IF mode = "all" THEN "change" ELSE op

\* C20: the event of a save, delete or clear that resolved is the one of the
\* mode in force when the method was called: 'change' with the snapshot for
\* 'all', the method's own event for 'info' (with the saved key and value).
C20_ModeAtCallGoverns ==
  \A op \in {"save", "delete", "clear"} :
    CallResolved(op) =>
      /\ Len(events) = 1
      /\ events[1].name = EventName(op, dmode)
      /\ dmode = "all" => events[1].all = store
      /\ (dmode = "info" /\ op = "save") => events[1] = SaveEvent("info")

\* ----------------------------------------- properties of replay and batchLoad
\* C13: when executeBatch has returned for the same list a second time and
\* every operation succeeded both times, the store is as it was when the
\* first execution returned.
C13_ReplayIsIdempotent ==
  (BatchDone /\ replays >= 1 /\ prevOk /\ result.success) => store = afterPrev

\* a save and a delete, one per chunk, executed twice with success, having
\* changed the store
C13_Witness ==
  /\ BatchDone
  /\ replays = 1
  /\ prevOk /\ result.success
  /\ Len(input) = 2
  /\ maxBatchSize = 1
  /\ input[1].type # input[2].type
  /\ store # pre

\* the keys batchLoad was asked for
Requested == {lkeys[j] : j \in 1..Len(lkeys)}

\* C14: batchLoad returns a record with exactly the requested keys, each with
\* its stored value, or with null if the key is missing or a load of it failed.
C14_BatchLoadCoversKeys ==
  lpc = "done" =>
    /\ {k \in Keys : loaded[k] # Absent} = Requested
    /\ \A k \in Requested :
         \/ loaded[k] = store[k]
         \/ loaded[k] = Null /\ (store[k] = Absent \/ k \in lfailed)

\* ------------------------------------ properties of concurrent transactions
\* C11: a transaction is never both committed and rolled back, also when
\* rollback() is called while commit() is suspended.
C11_OneTerminalState == ~(isCommitted /\ isRolledBack)

\* C12: when a commit() has settled with the transaction rolled back, a key
\* that somebody else saved after the backup read it and before rollback
\* restored it holds what the backup held for it (nothing when the backup held
\* null), so the other value is gone unless it was that same value; the
\* result's errors are those of the failed operations and no other, and what
\* commit() throws, if it throws, is rollback's failure.
C12_RollbackOverwritesOtherWriter ==
  (tpc = "idle" /\ settled # "no" /\ isRolledBack /\ wbackup # NoValue) =>
    /\ store[wkey] = wbackup
    /\ wval # wbackup => store[wkey] # wval
    /\ Len(result.errors) = Cardinality(Failed(result))
    /\ settled = "threw" => thrown[1] = ErrRollbackFailed

\* a failed commit has returned, rolled back, after somebody else saved 'b' to
\* a key that held 'a' at the backup: the key holds 'a' again
C12_Witness ==
  /\ tpc = "idle" /\ settled = "returned" /\ isRolledBack
  /\ ~result.success
  /\ wbackup = "a"
  /\ wval = "b"
  /\ store[wkey] = "a"

\* C24: every backup entry holds what a read of its key gave before any
\* operation of the transaction was executed, that is on the store the
\* transaction started on (null when that read failed), and no key has two
\* entries.
C24_BackupIsPreTransaction ==
  /\ \A i \in 1..Len(backupData) :
       backupData[i].value \in {AdapterLoad(StoreAtStart, backupData[i].key), Null}
  /\ \A i, j \in 1..Len(backupData) :
       backupData[i].key = backupData[j].key => i = j

\* ------------------------------------------- properties of the write order
\* the chunk that holds the operation at position id of the input
ChunkOf(id) == ((id - 1) \div maxBatchSize) + 1

\* operation a is to be written before operation b: its chunk is earlier, or
\* in the same chunk it is a save and b a delete, or they are of the same
\* type and a is earlier in the input
WrittenBefore(a, b) ==
  \/ ChunkOf(a.id) < ChunkOf(b.id)
  \/ /\ ChunkOf(a.id) = ChunkOf(b.id)
     /\ \/ a.type = "save" /\ b.type = "delete"
        \/ a.type = b.type /\ a.id < b.id

\* the operation whose DataStorage call executeBatch is awaiting
InFlight == executeChunkOrder(Chunks[ci])[oi]

\* C25: the DataStorage calls of executeBatch settle one after the other,
\* chunk by chunk, within a chunk the saves in input order and then the
\* deletes in input order; the one call in flight was issued after all
\* others had settled and is for an operation that comes after theirs.
C25_WritesInChunkOrder ==
  /\ \A j, l \in 1..Len(calls) :
       j < l => WrittenBefore(input[calls[j].id], input[calls[l].id])
  /\ bpc = "run" =>
       \A j \in 1..Len(calls) : WrittenBefore(input[calls[j].id], InFlight)
  /\ bpc = "done" => Len(calls) = Len(input)

\* three operations in chunks of two: the first chunk's save, second in the
\* input, was written before its delete, and the second chunk's save last
C25_Witness ==
  /\ BatchDone
  /\ maxBatchSize = 2
  /\ Len(calls) = 3
  /\ input[1].type = "delete" /\ input[2].type = "save" /\ input[3].type = "save"
  /\ calls[1].id = 2 /\ calls[2].id = 1 /\ calls[3].id = 3

\* the positions of the input whose operation is on key k
OpsOn(k) == {i \in 1..Len(input) : input[i].key = k}

\* C26: when executeBatch has returned and the operations on a key k were a
\* delete(k) and, later in the input, a save(k, v), both successful, then k
\* is absent if the two were in the same chunk and holds v if they were not.
C26_DeleteThenSaveDependsOnChunk ==
  (BatchDone /\ caller = "user") =>
    \A i, j \in 1..Len(input) :
      (/\ i < j
       /\ input[i].type = "delete" /\ input[j].type = "save"
       /\ input[i].key = input[j].key
       /\ OpsOn(input[i].key) = {i, j}
       /\ EntryOf(i).success /\ EntryOf(j).success)
      => store[input[i].key] = IF ChunkOf(i) = ChunkOf(j) THEN Absent
                                                          ELSE input[j].value

\* delete(k1) and save(k1, v) in one chunk, both successful: k1 is absent
C26_Witness ==
  /\ BatchDone /\ caller = "user"
  /\ Len(input) = 2
  /\ maxBatchSize = 2
  /\ input[1].type = "delete" /\ input[2].type = "save"
  /\ input[1].key = "k1" /\ input[2].key = "k1"
  /\ result.success
  /\ store["k1"] = Absent

\* the keys the input saves, and those it deletes
InputSaved == {input[i].key : i \in {j \in 1..Len(input) : input[j].type = "save"}}
InputDeleted == {input[i].key : i \in {j \in 1..Len(input) : input[j].type = "delete"}}

\* the store after the first n operations of the input were applied to st one
\* by one, in input order
RECURSIVE AppliedInOrder(_, _)
AppliedInOrder(st, n) ==
  IF n = 0 THEN st
  ELSE LET before == AppliedInOrder(st, n - 1)
           op == input[n]
       IN IF op.type = "save" THEN AdapterSave(before, op.key, op.value)
                              ELSE AdapterDelete(before, op.key)

\* C27: when executeBatch has returned, every operation succeeded and no key
\* is both saved and deleted, the store is the initial store with the
\* operations applied one by one in input order, whatever maxBatchSize is.
C27_ChunkingDoesNotMatter ==
  (BatchDone /\ caller = "user" /\ result.success
     /\ Len(result.operations) = Len(input) /\ InputSaved \cap InputDeleted = {})
  => store = AppliedInOrder(pre, Len(input))

\* three successful operations in chunks of two: two saves of k1, the later
\* one in the input winning, and a delete of k2
C27_Witness ==
  /\ BatchDone /\ caller = "user" /\ result.success
  /\ Len(input) = 3
  /\ maxBatchSize = 2
  /\ InputSaved = {"k1"} /\ InputDeleted = {"k2"}
  /\ input[1].type = "save" /\ input[3].type = "save"
  /\ input[1].value # input[3].value
  /\ store["k1"] = input[3].value
  /\ store # pre

ChunkIds(n) == {id \in 1..Len(input) : ChunkOf(id) = n}

\* the chunks of the input whose executeChunk throws
ThrowingChunks == {n \in 1..Len(Chunks) : filterThrows(Chunks[n])}

\* the positions in result.errors of the summary errors of chunk n
BatchErrorsOf(n) ==
  {j \in 1..Len(result.errors) : /\ result.errors[j][1] = "Batch failed"
                                 /\ result.errors[j][2] = n}

\* C32: when executeBatch has returned, every chunk whose executeChunk threw
\* outside the per-operation handlers has exactly one error 'Batch n failed:
\* msg' and no other trace in the result, the batch is failed, and every
\* operation of every other chunk was handed to DataStorage and has its entry.
C32_ChunkFailureIsSummarised ==
  BatchDone =>
    /\ \A n \in ThrowingChunks :
         /\ Cardinality(BatchErrorsOf(n)) = 1
         /\ \A j \in BatchErrorsOf(n) : result.errors[j] = BatchError(n, ErrTypeError)
         /\ ~result.success
         /\ \A j \in 1..Len(result.operations) :
              result.operations[j].operation.id \notin ChunkIds(n)
    /\ \A n \in (1..Len(Chunks)) \ ThrowingChunks :
         /\ BatchErrorsOf(n) = {}
         /\ ChunkIds(n) \subseteq {calls[j].id : j \in 1..Len(calls)}
         /\ ChunkIds(n) \subseteq {result.operations[j].operation.id :
                                      j \in 1..Len(result.operations)}

\* three chunks of one element: the first threw, the later two were executed
\* and the last one's save is in the store
C32_Witness ==
  /\ BatchDone
  /\ Len(Chunks) = 3
  /\ ThrowingChunks = {1}
  /\ Len(calls) = 2
  /\ calls[2].ok
  /\ input[3].type = "save"
  /\ store[input[3].key] = input[3].value
  /\ result.errors[1] = BatchError(1, ErrTypeError)

\* C33: a batch of c chunks executed with a positive delayBetweenBatches has
\* awaited exactly c - 1 delays when it returns (none when c = 0), the i-th
\* of them after chunk i had finished and before any call of chunk i + 1.
C33_DelaysBetweenChunks ==
  (BatchDone /\ pacing.delay > 0) =>
    /\ Len(pacing.slept) = Max(Len(Chunks) - 1, 0)
    /\ \A j \in 1..Len(pacing.slept) :
         /\ pacing.slept[j].after = j
         /\ pacing.slept[j].calls = Min(j * maxBatchSize, Len(input))

\* ------------------------------------------------ properties of chat memory
\* role and content of every message of a list
Said(list) == [i \in 1..Len(list) |-> <<list[i].role, list[i].content>>]

\* list a is the end of list b
EndsWith(b, a) ==
  /\ Len(a) <= Len(b)
  /\ SubSeq(b, Len(b) - Len(a) + 1, Len(b)) = a

\* the constructor's load and every save that was started have settled
ChatSettled == chat.constructed /\ ~chat.loadPending /\ chat.savesPending = 0

\* C35: once the constructor's load and every save have settled, the message
\* list and the adapter's 'chat-memory' entry both end with the added
\* messages, in the order they were added.
C35_AddedMessagesKept ==
  (ChatSettled /\ chat.added # <<>>) =>
    /\ EndsWith(Said(chat.messages), Said(chat.added))
    /\ chat.entry.present
    /\ EndsWith(Said(chat.entry.list), Said(chat.added))

\* C36: getLastMessages(n) returns the last min(n, length) messages in their
\* order, for every n >= 0.
C36_LastMessages ==
  [][GetLastMessages =>
       LET n == Min(chat'.asked, Len(chat.messages))
       IN chat'.last = SubSeq(chat.messages, Len(chat.messages) - n + 1,
                              Len(chat.messages))]_vars

\* ------------------------------------------------ properties of BatchBuilder
\* C22: build() would return the operations appended since the last clear(),
\* in append order, and count() is their number; every list build() returned
\* holds what it held when it was returned, but for what its user did to that
\* very list, whatever was appended, cleared or done to other lists since.
C22_BuildReturnsCopy ==
  /\ LET r == build(builder) IN r.heap[r.ref] = builder.appended
  /\ count(builder) = Len(builder.appended)
  /\ \A l \in 1..Len(builder.lists) :
       builder.heap[builder.lists[l].ref] = builder.lists[l].kept

\* a list of two operations was returned, the user emptied it, and the builder
\* then took a third operation: build() would return three, the list is empty
C22_Witness ==
  /\ Len(builder.lists) = 1
  /\ builder.lists[1].kept = <<>>
  /\ Len(builder.appended) = 3
  /\ count(builder) = 3

\* -------------------------------------------- properties of DataStorage.getAll
\* C23: getAll resolves to the adapter's getAll() when the adapter has that
\* method, otherwise to the adapter's data field when it has one, and rejects
\* with a configuration error when the adapter has neither.
C23_GetAllNeedsAPath ==
  facade.called =>
    IF facade.getAll
    THEN facade.ret.ok => facade.ret.val = AdapterGetAll(store)
    ELSE IF facade.data # NoSnapshot
    THEN facade.ret.ok /\ facade.ret.val = facade.data
    ELSE ~facade.ret.ok

====
